---- MODULE Spec2Model ----
(***************************************************************************)
(* Model of the Graz restaurant scraper pipeline (src/scraper): the        *)
(* Overpass fetcher with its retry loop, the name deduplicator, the        *)
(* pipeline orchestrator, website discovery and website enrichment, and    *)
(* the pure functions they rest on: the menu item extraction strategies,   *)
(* the website matcher and the tag parsers.                                *)
(*                                                                         *)
(* Text is modelled as a sequence of one-character strings, so that        *)
(* str.strip() and str.lower() are real conversions.  A URL is a sequence  *)
(* <<scheme, host>>; the empty sequence stands for None.  Coordinates of   *)
(* the raw elements are left out: no operation modelled here reads them.   *)
(***************************************************************************)
EXTENDS Integers, Sequences, FiniteSets, TLC

VARIABLES
    pc,            \* position of the single cooperative task
    entry,         \* the function the run was started through
    exc,           \* the exception raised to the caller ("none" when none)
    attempt,       \* scrape(): loop variable of the retry loop
    resp,          \* scrape(): last response object ([status |-> 0] is None)
    olog,          \* scrape(): sleeps and POSTs issued, in order
    raw_elements,  \* scrape()'s return value / run()'s raw_elements
    dedup_in,      \* argument of the last _deduplicate call
    restaurants,   \* the entity list being processed
    args,          \* main(): the command line flags
    env_key,       \* the OPENAI_API_KEY environment variable
    stages,        \* run(): the stages executed so far, in order
    raw_file,      \* restaurants_raw.json (<<>> while not written)
    clean_file,    \* restaurants.json (<<>> while not written)
    opts,          \* enrich_restaurants(): use_playwright, use_vision, openai_api_key
    idx,           \* enrich_restaurants(): position of the entity loop
    browser,       \* the headless browser: "none", "open" or "closed"
    pw_context,    \* the Playwright driver context: "none", "created", "entered", "exited"
    launches,      \* number of chromium.launch calls made
    open_pages,    \* number of browser pages currently open
    cur,           \* scrape_restaurant_website(): the result being assembled
    used,          \* extraction strategies invoked for the current entity, in order
    since_req,     \* seconds slept since the last outbound request
    last_req,      \* entity and kind of the last outbound request
    gap,           \* the last two outbound requests and the seconds between them
    stage_result,  \* entity, stage and success of the last per-entity stage
    missing,       \* discover_missing_websites(): positions of the entities searched
    didx,          \* discover_missing_websites(): position of the search loop
    arg,           \* argument of a directly called pure function
    ret            \* its return value ([returned |-> FALSE] before it returns)

\* The function called, its argument and its return value
callVars == <<entry, arg, ret>>

pipeVars == <<args, env_key, stages, raw_file, clean_file>>

browserVars == <<browser, pw_context, launches, open_pages>>

timeVars == <<since_req, last_req, gap>>

discVars == <<missing, didx>>

enrichVars ==
    <<opts, idx, browserVars, cur, used, timeVars, stage_result, discVars>>

vars ==
    <<pc, callVars, exc, attempt, resp, olog, raw_elements, dedup_in, restaurants,
      pipeVars, enrichVars>>

-----------------------------------------------------------------------------
(* Bounds of the model *)

MaxElems == 2

MaxList == 3

-----------------------------------------------------------------------------
(* Text *)

UpperCase ==
    <<"A", "B", "C", "D", "E", "F", "G", "H", "I", "J", "K", "L", "M",
      "N", "O", "P", "Q", "R", "S", "T", "U", "V", "W", "X", "Y", "Z">>

LowerCase ==
    <<"a", "b", "c", "d", "e", "f", "g", "h", "i", "j", "k", "l", "m",
      "n", "o", "p", "q", "r", "s", "t", "u", "v", "w", "x", "y", "z">>

\* str.lower() of one character
Lower(c) ==
    IF \E i \in 1..26 : UpperCase[i] = c
    THEN LowerCase[CHOOSE i \in 1..26 : UpperCase[i] = c]
    ELSE c

IsSpace(c) == c = " "

IsDigit(c) == c \in {"0", "1", "2", "3", "4", "5", "6", "7", "8", "9"}

\* str.lower()
StrLower(s) == [i \in 1..Len(s) |-> Lower(s[i])]

RECURSIVE LStrip(_)
LStrip(s) == IF s # <<>> /\ IsSpace(Head(s)) THEN LStrip(Tail(s)) ELSE s

RECURSIVE RStrip(_)
RStrip(s) ==
    IF s # <<>> /\ IsSpace(s[Len(s)]) THEN RStrip(SubSeq(s, 1, Len(s) - 1)) ELSE s

\* str.strip()
Strip(s) == RStrip(LStrip(s))

\* Entity names that occur in the modelled responses and inputs.
Names ==
    { <<"a">>, <<"A">>, <<" ", "a">>, <<"A", " ">>, <<"b">>, <<" ">> }

NoneUrl == <<>>

Urls == { <<"http://", "a.at">>, <<"https://", "b.at">>, <<"", "c.at">> }

\* Python truthiness of a str / None / list value
Truthy(v) == v # <<>>

\* The flags of a direct call of a stage, which parses no command line
NoArgs ==
    [enrich |-> FALSE, enrich_js |-> FALSE, enrich_vision |-> FALSE,
     discover_websites |-> FALSE, limit |-> 0]

\* No outbound request made yet
NoReq == [ent |-> 0, kind |-> "none"]

NoGap == [from |-> NoReq, to |-> NoReq, secs |-> 0]

\* No result assembled
NoCur ==
    [summary |-> <<>>, menu_items |-> <<>>, menu_url |-> <<>>, menu_file_url |-> <<>>]

NoStage == [ent |-> 0, stage |-> "none", ok |-> TRUE]

NoOpts == [use_playwright |-> FALSE, use_vision |-> FALSE, openai_api_key |-> <<>>]

\* No pure function has returned
NotReturned == [returned |-> FALSE]

Returned(value) == [returned |-> TRUE, value |-> value]

\* The stage called takes its arguments from the other variables
NoPureCall ==
    /\ arg = <<>>
    /\ ret = NotReturned

\* The orchestrator's variables before main() has run
PipeIdle ==
    /\ args = NoArgs
    /\ env_key = <<>>
    /\ stages = <<>>
    /\ raw_file = <<>>
    /\ clean_file = <<>>

\* The enrichment and discovery variables before either has been called
EnrichIdle ==
    /\ opts = NoOpts
    /\ idx = 0
    /\ browser = "none"
    /\ pw_context = "none"
    /\ launches = 0
    /\ open_pages = 0
    /\ cur = NoCur
    /\ used = <<>>
    /\ since_req = 0
    /\ last_req = NoReq
    /\ gap = NoGap
    /\ stage_result = NoStage
    /\ missing = <<>>
    /\ didx = 0

-----------------------------------------------------------------------------
(* Overpass fetcher: scraper/overpass.py *)

_MAX_RETRIES == 3

\* Mutation: the first two waits are swapped.
_RETRY_BACKOFF_Swapped == <<15, 5, 30>>

_RETRY_BACKOFF == <<5, 15, 30>>

\* HTTP statuses the Overpass endpoint answers with in the model.
Statuses == {200, 429, 504, 500, 404}

\* Tag maps of the modelled elements: dicts, so a key may be missing.
TagMaps ==
    { [name |-> <<"a">>],
      [name |-> <<"A", " ">>, website |-> <<"http://", "a.at">>],
      [name |-> <<"b">>, website |-> <<"", "c.at">>],
      [name |-> <<" ">>],
      [name |-> <<>>, website |-> <<"https://", "b.at">>],
      [website |-> <<"https://", "b.at">>] }

\* One element of the response: "tags" itself may be missing.
Elements == [tags : TagMaps] \cup { [notags |-> TRUE] }

\* e.get("tags", {})
TagsOf(e) == IF "tags" \in DOMAIN e THEN e.tags ELSE [x \in {} |-> <<>>]

\* tags.get(key, "") / tags.get(key): the missing value is falsy either way
TagGet(tags, key) == IF key \in DOMAIN tags THEN tags[key] ELSE <<>>

\* Response bodies: the "elements" list, each element with its id.
Bodies ==
    UNION { [1..n -> Elements] : n \in 0..MaxElems }

\* Mutation: the key is tested for presence, not for a truthy value.
HasName_KeyPresent(e) == "name" \in DOMAIN TagsOf(e)

\* overpass.py:112: e.get("tags", {}).get("name")
HasName(e) == Truthy(TagGet(TagsOf(e), "name"))

\* overpass.py:112: named = [e for e in elements if e.get("tags", {}).get("name")]
\* (as the positions of the kept elements, from position i on)
RECURSIVE NamedFrom(_, _)
NamedFrom(elements, i) ==
    IF i > Len(elements) THEN <<>>
    ELSE IF HasName(elements[i]) THEN <<i>> \o NamedFrom(elements, i + 1)
    ELSE NamedFrom(elements, i + 1)

\* overpass.py:123-136: one result dict per named element, in order
ScrapeResults(elements) ==
    LET ids == NamedFrom(elements, 1)
    IN  [k \in 1..Len(ids) |->
            [osm_id |-> ids[k], tags |-> TagsOf(elements[ids[k]])]]

NoResp == [status |-> 0, elements |-> <<>>]

Sleep(n) == [ev |-> "sleep", n |-> n]

Post(status) == [ev |-> "post", n |-> status]

PostFailed == [ev |-> "post_error", n |-> 0]

\* Mutation: every server-side error (5xx) is retried, not only 504.
Retryable_AnyServerError(status) == status \in {429, 504} \/ status >= 500

\* The status codes that are retried (overpass.py:78)
Retryable(status) == status \in {429, 504}

\* Mutation: off by one, the last attempt is retried as well.
MayRetry_OffByOne(a) == a < _MAX_RETRIES

\* overpass.py:78 and :92: may this attempt be followed by another one
MayRetry(a) == a < _MAX_RETRIES - 1

\* Position after `continue`: next iteration, or the code after the loop
AfterContinue(a) == IF a + 1 < _MAX_RETRIES THEN "scrape_loop" ELSE "scrape_after"

\* overpass.py:56-60: the courtesy pause before the first request
ScrapeStart ==
    /\ pc = "scrape_start"
    /\ olog' = Append(olog, Sleep(1))
    /\ attempt' = 0
    /\ resp' = NoResp
    /\ pc' = "scrape_loop"
    /\ UNCHANGED <<callVars, exc, raw_elements, dedup_in, restaurants, pipeVars, enrichVars>>

\* overpass.py:69-75: the POST is answered with 200
ScrapeAttemptOk ==
    /\ pc = "scrape_loop"
    /\ \E body \in Bodies :
         /\ resp' = [status |-> 200, elements |-> body]
         /\ olog' = Append(olog, Post(200))
    /\ pc' = "scrape_after"
    /\ UNCHANGED <<callVars, exc, attempt, raw_elements, dedup_in, restaurants, pipeVars, enrichVars>>

\* overpass.py:76-90: the POST is answered with an error status
ScrapeAttemptStatusError ==
    /\ pc = "scrape_loop"
    /\ \E status \in Statuses \ {200} :
         /\ resp' = [status |-> status, elements |-> <<>>]
         /\ IF Retryable(status) /\ MayRetry(attempt)
            THEN /\ olog' = olog \o <<Post(status), Sleep(_RETRY_BACKOFF[attempt + 1])>>
                 /\ attempt' = attempt + 1
                 /\ pc' = AfterContinue(attempt)
                 /\ exc' = exc
            ELSE /\ olog' = Append(olog, Post(status))
                 /\ attempt' = attempt
                 /\ pc' = "scrape_raised"
                 /\ exc' = "HTTPStatusError"
    /\ UNCHANGED <<callVars, raw_elements, dedup_in, restaurants, pipeVars, enrichVars>>

\* overpass.py:91-102: the POST fails below HTTP (connect, timeout, ...)
ScrapeAttemptRequestError ==
    /\ pc = "scrape_loop"
    /\ IF MayRetry(attempt)
       THEN /\ olog' = olog \o <<PostFailed, Sleep(_RETRY_BACKOFF[attempt + 1])>>
            /\ attempt' = attempt + 1
            /\ pc' = AfterContinue(attempt)
            /\ exc' = exc
       ELSE /\ olog' = Append(olog, PostFailed)
            /\ attempt' = attempt
            /\ pc' = "scrape_raised"
            /\ exc' = "RequestError"
    /\ UNCHANGED <<callVars, resp, raw_elements, dedup_in, restaurants, pipeVars, enrichVars>>

\* overpass.py:104-136: after the loop
ScrapeFinish ==
    /\ pc = "scrape_after"
    /\ IF resp = NoResp
       THEN /\ pc' = "scrape_raised"
            /\ exc' = "RuntimeError"
            /\ raw_elements' = raw_elements
       ELSE /\ pc' = "scrape_returned"
            /\ exc' = exc
            /\ raw_elements' = ScrapeResults(resp.elements)
    /\ UNCHANGED <<callVars, attempt, resp, olog, dedup_in, restaurants, pipeVars, enrichVars>>

NextScrape ==
    \/ ScrapeStart
    \/ ScrapeAttemptOk
    \/ ScrapeAttemptStatusError
    \/ ScrapeAttemptRequestError
    \/ ScrapeFinish

InitScrape ==
    /\ pc = "scrape_start"
    /\ NoPureCall
    /\ entry = "scrape"
    /\ exc = "none"
    /\ attempt = 0
    /\ resp = NoResp
    /\ olog = <<>>
    /\ raw_elements = <<>>
    /\ dedup_in = <<>>
    /\ restaurants = <<>>
    /\ PipeIdle
    /\ EnrichIdle

SpecScrape == InitScrape /\ [][NextScrape]_vars

-----------------------------------------------------------------------------
(* Tag normalizer (the fields the pipeline stages read): scraper/parsers.py *)

\* parsers.py:185-187: tags.get("website") or tags.get("contact:website") or None
parse_website(tags) ==
    IF Truthy(TagGet(tags, "website")) THEN tags.website
    ELSE IF Truthy(TagGet(tags, "contact_website")) THEN tags.contact_website
    ELSE NoneUrl

\* The entity raw_to_restaurant builds for a name and a website
Entity(name, website) ==
    [ name |-> name,
      website |-> website,
      summary |-> <<>>,
      menu_items |-> <<>>,
      menu_url |-> NoneUrl,
      data_sources |-> <<"openstreetmap">> ]

\* parsers.py:193-215
raw_to_restaurant(element) ==
    Entity(TagGet(element.tags, "name"), parse_website(element.tags))

-----------------------------------------------------------------------------
(* Deduplicator: scraper/__main__.py *)

\* Mutation: the name is lower-cased but not trimmed.
DedupKey_NoStrip(r) == StrLower(r.name)

\* __main__.py:41: key = r["name"].strip().lower()
DedupKey(r) == StrLower(Strip(r.name))

\* __main__.py:38-44: the loop, from position i on with the keys seen so far
RECURSIVE DedupLoop(_, _, _)
DedupLoop(list, i, seen) ==
    IF i > Len(list) THEN <<>>
    ELSE IF DedupKey(list[i]) \notin seen
         THEN <<list[i]>> \o DedupLoop(list, i + 1, seen \cup {DedupKey(list[i])})
         ELSE DedupLoop(list, i + 1, seen)

\* __main__.py:36-48
_deduplicate(list) == DedupLoop(list, 1, {})

\* Position after _deduplicate returns: run() goes on, a direct call ends
AfterDedup == IF entry = "main" THEN "limit" ELSE "dedup_returned"

\* __main__.py:85-87: restaurants = _deduplicate(restaurants)
Deduplicate ==
    /\ pc = "dedup"
    /\ dedup_in' = restaurants
    /\ restaurants' = _deduplicate(restaurants)
    /\ stages' = Append(stages, "dedup")
    /\ pc' = AfterDedup
    /\ UNCHANGED <<callVars, exc, attempt, resp, olog, raw_elements, args, env_key,
                   raw_file, clean_file, enrichVars>>

\* _deduplicate applied to its own output
DeduplicateAgain ==
    /\ pc = "dedup_returned"
    /\ dedup_in' = restaurants
    /\ restaurants' = _deduplicate(restaurants)
    /\ pc' = "dedup_twice"
    /\ UNCHANGED <<callVars, exc, attempt, resp, olog, raw_elements, pipeVars, enrichVars>>

NextDedup == Deduplicate \/ DeduplicateAgain

\* The entities the normalizer can hand to _deduplicate
DedupEntities ==
    { Entity(n, w) : n \in Names, w \in {NoneUrl, <<"http://", "a.at">>} }

InitDedup ==
    /\ pc = "dedup"
    /\ NoPureCall
    /\ entry = "dedup"
    /\ exc = "none"
    /\ attempt = 0
    /\ resp = NoResp
    /\ olog = <<>>
    /\ raw_elements = <<>>
    /\ dedup_in = <<>>
    /\ restaurants \in UNION { [1..n -> DedupEntities] : n \in 0..MaxList }
    /\ PipeIdle
    /\ EnrichIdle

SpecDedup == InitDedup /\ [][NextDedup]_vars

-----------------------------------------------------------------------------
(* Website enrichment: scraper/websites.py *)

MaxEntities == 2

MaxItems == 3

\* websites.py:459, :468, :591: fewer than 3 items call for a fallback
MenuThreshold == 3

_DELAY_BETWEEN_REQUESTS == 2

\* A menu item list of n items (the dishes 1..n of the source read)
Items(n) == [k \in 1..n |-> [dish |-> k]]

\* What a fetched HTML page holds: its summary text, its first menu-page
\* link ("self" links back to the page fetched), whether it links a menu
\* file, and how many items its JSON-LD blocks and its priced blocks give.
Pages ==
    [ summary : {<<>>, <<"s">>},
      menu_href : {"none", "self", "page"},
      file_href : BOOLEAN,
      jsonld : 0..MaxItems,
      heur : 0..MaxItems ]

\* Menu pages and rendered pages: only their items are read
ItemPages ==
    { p \in Pages : p.summary = <<>> /\ p.menu_href = "none" /\ ~p.file_href }

\* websites.py:129-146
_extract_summary(page) == page.summary

\* websites.py:149-163: urljoin(base_url, href) of the first menu-page link
_find_menu_url(page, base_url) ==
    IF page.menu_href = "none" THEN NoneUrl
    ELSE IF page.menu_href = "self" THEN base_url
    ELSE base_url \o <<"/menu">>

\* websites.py:166-179: urljoin(base_url, href) of the first menu-file link
_find_menu_file_url(page, base_url) ==
    IF page.file_href THEN base_url \o <<"/menu.pdf">> ELSE NoneUrl

\* websites.py:225-241
_extract_from_jsonld(page) == Items(page.jsonld)

\* websites.py:303-368
_extract_from_html_heuristic(page) == Items(page.heur)

\* Mutation: the heuristic walk runs whatever the structured data gave.
ExtractAlwaysWalks(page) ==
    [ items |-> IF _extract_from_jsonld(page) # <<>>
                THEN _extract_from_jsonld(page)
                ELSE _extract_from_html_heuristic(page),
      invoked |-> <<"jsonld", "heuristic">> ]

\* websites.py:199-222: the items, and the strategies invoked to get them
_extract_menu_items_from_soup(page) ==
    IF _extract_from_jsonld(page) # <<>>
    THEN [items |-> _extract_from_jsonld(page), invoked |-> <<"jsonld">>]
    ELSE [items |-> _extract_from_html_heuristic(page),
          invoked |-> <<"jsonld", "heuristic">>]

\* One entry of the extraction history of the current entity
Extraction(source, page) ==
    [ source |-> source,
      jsonld |-> Len(_extract_from_jsonld(page)),
      invoked |-> _extract_menu_items_from_soup(page).invoked ]

VisionCall == [source |-> "file", jsonld |-> 0, invoked |-> <<"vision">>]

\* Mutation: the threshold test lets a list of exactly 3 items through.
NeedsMore_OffByOne(items) == Len(items) <= MenuThreshold

\* websites.py:459, :468, :591: len(menu_items) < 3
NeedsMore(items) == Len(items) < MenuThreshold

\* Mutation: the fallback's result replaces the current items unconditionally.
KeepLarger_TakeNew(items, new) == new

\* websites.py:464-465, :477-478, :599-600
KeepLarger(items, new) == IF Len(new) > Len(items) THEN new ELSE items

\* websites.py:557: url.startswith(("http://", "https://"))
IsHttp(url) == url # <<>> /\ url[1] \in {"http://", "https://"}

\* An outbound request of the given kind for entity ent, made after
\* sleeping `slept` more seconds: the pair it forms with the one before
GapTo(ent, kind, slept) ==
    [from |-> last_req, to |-> [ent |-> ent, kind |-> kind], secs |-> since_req + slept]

\* The last request, as the next one needs it: its entity, and whether it
\* was a search lookup or a fetch
Req(ent, kind) ==
    [ent |-> ent, kind |-> IF kind = "search" THEN "search" ELSE "fetch"]

Stage(ent, stage, ok) == [ent |-> ent, stage |-> stage, ok |-> ok]

\* Outcomes of starting the browser (websites.py:529-543)
LaunchOutcomes ==
    IF opts.use_playwright
    THEN {"ok", "enter_error", "launch_error"}
    ELSE {"off"}

\* Variables no step of enrichment or discovery changes
enrichFrame == <<callVars, attempt, resp, olog, raw_elements, dedup_in, pipeVars>>

\* Position after enrich_restaurants returns
AfterEnrich == IF entry = "main" THEN "write_clean" ELSE "enrich_returned"

\* websites.py:520-550: optional browser launch, then the HTTP client
EnrichStart ==
    /\ pc = "enrich_start"
    /\ \E launch \in LaunchOutcomes :
         /\ browser' = IF launch = "ok" THEN "open" ELSE "none"
         /\ pw_context' =
               IF launch \in {"ok", "launch_error"} THEN "entered"
               ELSE IF launch = "enter_error" THEN "created"
               ELSE "none"
         /\ launches' = IF launch \in {"ok", "launch_error"} THEN launches + 1 ELSE launches
    /\ idx' = 1
    /\ pc' = "enrich_loop"
    /\ UNCHANGED <<exc, restaurants, opts, open_pages, cur, used, timeVars,
                   stage_result, discVars, enrichFrame>>

\* websites.py:551: the entity loop is exhausted
EnrichLoopEnd ==
    /\ pc = "enrich_loop"
    /\ idx > Len(restaurants)
    /\ pc' = "enrich_finally"
    /\ gap' = NoGap
    /\ stage_result' = NoStage
    /\ UNCHANGED <<exc, restaurants, opts, idx, browserVars, cur, used, since_req,
                   last_req, discVars, enrichFrame>>

\* websites.py:552-559: no website, or not an http(s) URL: continue
EnrichSkip ==
    /\ pc = "enrich_loop"
    /\ idx <= Len(restaurants)
    /\ ~Truthy(restaurants[idx].website) \/ ~IsHttp(restaurants[idx].website)
    /\ idx' = idx + 1
    /\ gap' = NoGap
    /\ stage_result' = NoStage
    /\ UNCHANGED <<pc, exc, restaurants, opts, browserVars, cur, used, since_req,
                   last_req, discVars, enrichFrame>>

\* websites.py:561-570: the entity has a usable URL: scrape its website
EnrichBegin ==
    /\ pc = "enrich_loop"
    /\ idx <= Len(restaurants)
    /\ Truthy(restaurants[idx].website) /\ IsHttp(restaurants[idx].website)
    /\ cur' = NoCur
    /\ used' = <<>>
    /\ gap' = NoGap
    /\ stage_result' = NoStage
    /\ pc' = "fetch_home"
    /\ UNCHANGED <<exc, restaurants, opts, idx, browserVars, since_req, last_req,
                   discVars, enrichFrame>>

\* websites.py:446-448 with :104-119 and :571-575: the homepage cannot be
\* fetched or parsed; the result is None and the loop continues
FetchHomeFails ==
    /\ pc = "fetch_home"
    /\ gap' = GapTo(idx, "home", 0)
    /\ last_req' = Req(idx, "home")
    /\ since_req' = 0
    /\ stage_result' = Stage(idx, "home", FALSE)
    /\ idx' = idx + 1
    /\ pc' = "enrich_loop"
    /\ UNCHANGED <<exc, restaurants, opts, browserVars, cur, used, discVars,
                   enrichFrame>>

\* websites.py:446-455: the homepage is fetched and read
FetchHome ==
    /\ pc = "fetch_home"
    /\ gap' = GapTo(idx, "home", 0)
    /\ last_req' = Req(idx, "home")
    /\ since_req' = 0
    /\ stage_result' = Stage(idx, "home", TRUE)
    /\ \E page \in Pages :
         /\ cur' = [ summary |-> _extract_summary(page),
                     menu_url |-> _find_menu_url(page, restaurants[idx].website),
                     menu_file_url |-> _find_menu_file_url(page, restaurants[idx].website),
                     menu_items |-> _extract_menu_items_from_soup(page).items ]
         /\ used' = <<Extraction("home", page)>>
    /\ pc' = "menu_page"
    /\ UNCHANGED <<exc, restaurants, opts, idx, browserVars, discVars, enrichFrame>>

\* websites.py:459: is the separate menu page fetched
WantsMenuPage ==
    /\ Truthy(cur.menu_url)
    /\ cur.menu_url # restaurants[idx].website
    /\ NeedsMore(cur.menu_items)

\* websites.py:459: the condition fails, no second request
SkipMenuPage ==
    /\ pc = "menu_page"
    /\ ~WantsMenuPage
    /\ pc' = "vision"
    /\ UNCHANGED <<exc, restaurants, opts, idx, browserVars, cur, used, timeVars,
                   stage_result, discVars, enrichFrame>>

\* websites.py:460-465: sleep 1 s, fetch the menu page, keep the larger list
FetchMenuPage ==
    /\ pc = "menu_page"
    /\ WantsMenuPage
    /\ gap' = GapTo(idx, "menu_page", 1)
    /\ last_req' = Req(idx, "menu_page")
    /\ since_req' = 0
    /\ \/ /\ stage_result' = Stage(idx, "menu_page", FALSE)
          /\ UNCHANGED <<cur, used>>
       \/ /\ stage_result' = Stage(idx, "menu_page", TRUE)
          /\ \E page \in ItemPages :
               /\ cur' = [cur EXCEPT !.menu_items =
                            KeepLarger(@, _extract_menu_items_from_soup(page).items)]
               /\ used' = Append(used, Extraction("menu_page", page))
    /\ pc' = "vision"
    /\ UNCHANGED <<exc, restaurants, opts, idx, browserVars, discVars, enrichFrame>>

\* websites.py:468: is the vision fallback tried
WantsVision ==
    /\ opts.use_vision
    /\ NeedsMore(cur.menu_items)
    /\ Truthy(cur.menu_file_url)

\* menu_vision.py:339: key = api_key or os.environ.get("OPENAI_API_KEY", "")
VisionKey == IF Truthy(opts.openai_api_key) THEN opts.openai_api_key ELSE env_key

\* websites.py:468: the condition fails
SkipVision ==
    /\ pc = "vision"
    /\ ~WantsVision
    /\ pc' = "merge"
    /\ UNCHANGED <<exc, restaurants, opts, idx, browserVars, cur, used, timeVars,
                   stage_result, discVars, enrichFrame>>

\* websites.py:469-480 with menu_vision.py:339-342: sleep 1 s, then
\* extract_menu_from_file_url returns [] at once for want of an API key
VisionNoKey ==
    /\ pc = "vision"
    /\ WantsVision
    /\ ~Truthy(VisionKey)
    /\ since_req' = since_req + 1
    /\ used' = Append(used, VisionCall)
    /\ stage_result' = Stage(idx, "menu_file", FALSE)
    /\ cur' = [cur EXCEPT !.menu_items = KeepLarger(@, <<>>)]
    /\ pc' = "merge"
    /\ UNCHANGED <<exc, restaurants, opts, idx, browserVars, last_req, gap,
                   discVars, enrichFrame>>

\* websites.py:469-480 with menu_vision.py:344-375: sleep 1 s, download the
\* menu file and extract; a failed download gives [], an exception is caught
VisionExtract ==
    /\ pc = "vision"
    /\ WantsVision
    /\ Truthy(VisionKey)
    /\ gap' = GapTo(idx, "menu_file", 1)
    /\ last_req' = Req(idx, "menu_file")
    /\ since_req' = 0
    /\ used' = Append(used, VisionCall)
    /\ \/ /\ stage_result' = Stage(idx, "menu_file", FALSE)
          /\ \E failure \in {"download", "exception"} :
               cur' = IF failure = "download"
                      THEN [cur EXCEPT !.menu_items = KeepLarger(@, <<>>)]
                      ELSE cur
       \/ /\ stage_result' = Stage(idx, "menu_file", TRUE)
          /\ \E n \in 0..MaxItems :
               cur' = [cur EXCEPT !.menu_items = KeepLarger(@, Items(n))]
    /\ pc' = "merge"
    /\ UNCHANGED <<exc, restaurants, opts, idx, browserVars, discVars, enrichFrame>>

\* websites.py:485: "menu_url": menu_url or menu_file_url
ResultMenuUrl == IF Truthy(cur.menu_url) THEN cur.menu_url ELSE cur.menu_file_url

\* websites.py:591: is the page rendered in the browser
WantsRender ==
    /\ browser = "open"
    /\ NeedsMore(cur.menu_items)
    /\ Truthy(ResultMenuUrl)

\* websites.py:482-487 and :577-591: the result is returned; summary and
\* menu URL are merged into the entity
Merge ==
    /\ pc = "merge"
    /\ restaurants' =
          [restaurants EXCEPT ![idx] =
              [@ EXCEPT
                 !.summary = IF Truthy(cur.summary) /\ ~Truthy(@) THEN cur.summary ELSE @,
                 !.menu_url = IF Truthy(ResultMenuUrl) THEN ResultMenuUrl ELSE @]]
    /\ cur' = [cur EXCEPT !.menu_url = ResultMenuUrl]
    /\ pc' = IF WantsRender THEN "pw_page" ELSE "merge_items"
    /\ UNCHANGED <<exc, opts, idx, browserVars, used, timeVars, stage_result,
                   discVars, enrichFrame>>

\* websites.py:389 with :596-598: browser.new_page()
PwNewPage ==
    /\ pc = "pw_page"
    /\ \/ /\ open_pages' = open_pages + 1
          /\ pc' = "pw_render"
          /\ UNCHANGED stage_result
       \/ /\ open_pages' = open_pages
          /\ stage_result' = Stage(idx, "rendered", FALSE)
          /\ pc' = "merge_items"
    /\ UNCHANGED <<exc, restaurants, opts, idx, browser, pw_context, launches, cur,
                   used, timeVars, discVars, enrichFrame>>

\* websites.py:390-404, :416-419 and :599-601: navigate, read the rendered
\* page (None on any failure), close the page, keep the larger list
PwRender ==
    /\ pc = "pw_render"
    /\ gap' = GapTo(idx, "rendered", 0)
    /\ last_req' = Req(idx, "rendered")
    /\ since_req' = 0
    /\ \/ /\ stage_result' = Stage(idx, "rendered", FALSE)
          /\ cur' = [cur EXCEPT !.menu_items = KeepLarger(@, <<>>)]
          /\ UNCHANGED used
       \/ /\ stage_result' = Stage(idx, "rendered", TRUE)
          /\ \E page \in ItemPages :
               /\ cur' = [cur EXCEPT !.menu_items =
                            KeepLarger(@, _extract_menu_items_from_soup(page).items)]
               /\ used' = Append(used, Extraction("rendered", page))
    /\ open_pages' = open_pages - 1
    /\ pc' = "merge_items"
    /\ UNCHANGED <<exc, restaurants, opts, idx, browser, pw_context, launches,
                   discVars, enrichFrame>>

\* Mutation: the label is appended whether or not the list has it.
AddSource_Unconditional(sources, label) == Append(sources, label)

\* websites.py:611-614: "website" is appended to data_sources once
AddSource(sources, label) ==
    IF \E i \in 1..Len(sources) : sources[i] = label THEN sources
    ELSE Append(sources, label)

\* websites.py:603-619: items and provenance are merged, then the 2 s pause
MergeItems ==
    /\ pc = "merge_items"
    /\ restaurants' =
          [restaurants EXCEPT ![idx] =
              [@ EXCEPT
                 !.menu_items = IF Truthy(cur.menu_items) THEN cur.menu_items ELSE @,
                 !.data_sources = AddSource(@, "website")]]
    /\ since_req' = since_req + _DELAY_BETWEEN_REQUESTS
    /\ idx' = idx + 1
    /\ cur' = NoCur
    /\ used' = <<>>
    /\ pc' = "enrich_loop"
    /\ UNCHANGED <<exc, opts, browserVars, last_req, gap, stage_result,
                   discVars, enrichFrame>>

\* The awaits inside the entity loop, where the task can be cancelled
AwaitPoints == {"fetch_home", "menu_page", "vision", "pw_page", "pw_render"}

\* The task is cancelled while awaiting (CancelledError is no Exception, so
\* no except clause of the loop catches it); websites.py:403-404 closes the
\* page on the way out
Cancel ==
    /\ pc \in AwaitPoints
    /\ exc' = "CancelledError"
    /\ open_pages' = 0
    /\ cur' = NoCur
    /\ used' = <<>>
    /\ pc' = "enrich_finally"
    /\ UNCHANGED <<restaurants, opts, idx, browser, pw_context, launches,
                   timeVars, stage_result, discVars, enrichFrame>>

\* Mutation: the browser is closed on the normal path only.
CloseBrowser_NormalPathOnly(b) == IF b = "open" /\ exc = "none" THEN "closed" ELSE b

\* websites.py:622-623
CloseBrowser(b) == IF b = "open" THEN "closed" ELSE b

\* websites.py:624-625
ExitContext(c) == IF c # "none" THEN "exited" ELSE c

\* websites.py:620-641: the finally block, then return or re-raise
EnrichFinally ==
    /\ pc = "enrich_finally"
    /\ browser' = CloseBrowser(browser)
    /\ pw_context' = ExitContext(pw_context)
    /\ pc' = IF exc = "none" THEN AfterEnrich ELSE "enrich_raised"
    /\ UNCHANGED <<exc, restaurants, opts, idx, launches, open_pages, cur, used,
                   timeVars, stage_result, discVars, enrichFrame>>

NextEnrichment ==
    \/ EnrichStart
    \/ EnrichLoopEnd
    \/ EnrichSkip
    \/ EnrichBegin
    \/ FetchHomeFails
    \/ FetchHome
    \/ SkipMenuPage
    \/ FetchMenuPage
    \/ SkipVision
    \/ VisionNoKey
    \/ VisionExtract
    \/ Merge
    \/ PwNewPage
    \/ PwRender
    \/ MergeItems
    \/ Cancel
    \/ EnrichFinally

-----------------------------------------------------------------------------
(* Website discovery: scraper/website_discovery.py *)

_DELAY_BETWEEN_SEARCHES == 3

\* What a search can come to: the search raises, it returns no result, or
\* it returns results of which _pick_best_url accepts one (best) or none
SearchOutcomes ==
    { [kind |-> "error", best |-> NoneUrl],
      [kind |-> "empty", best |-> NoneUrl],
      [kind |-> "results", best |-> NoneUrl],
      [kind |-> "results", best |-> <<"https://", "found.at">>] }

\* website_discovery.py:379-383: does the search error leave discover_website
SearchRaises(outcome) == FALSE

\* website_discovery.py:364-388
discover_website(outcome) ==
    IF outcome.kind = "error" THEN NoneUrl
    ELSE IF outcome.kind = "empty" THEN NoneUrl
    ELSE outcome.best

\* website_discovery.py:407: positions of the entities without a website
RECURSIVE MissingFrom(_, _)
MissingFrom(list, i) ==
    IF i > Len(list) THEN <<>>
    ELSE IF ~Truthy(list[i].website) THEN <<i>> \o MissingFrom(list, i + 1)
    ELSE MissingFrom(list, i + 1)

\* Position after discover_missing_websites returns
AfterDiscover == "discover_returned"

\* website_discovery.py:407-418
DiscoverStart ==
    /\ pc = "discover_start"
    /\ missing' = MissingFrom(restaurants, 1)
    /\ didx' = 1
    /\ pc' = IF MissingFrom(restaurants, 1) = <<>> THEN AfterDiscover ELSE "discover_search"
    /\ UNCHANGED <<exc, restaurants, opts, idx, browserVars, cur, used, timeVars,
                   stage_result, enrichFrame>>

\* website_discovery.py:419-449: one search, the update of the entity, the
\* 3 s pause
DiscoverSearch ==
    /\ pc = "discover_search"
    /\ gap' = GapTo(missing[didx], "search", 0)
    /\ last_req' = Req(missing[didx], "search")
    /\ since_req' = _DELAY_BETWEEN_SEARCHES
    /\ \E outcome \in SearchOutcomes :
         IF SearchRaises(outcome)
         THEN /\ exc' = "SearchError"
              /\ pc' = "discover_raised"
              /\ stage_result' = Stage(missing[didx], "search", FALSE)
              /\ UNCHANGED <<restaurants, didx>>
         ELSE /\ exc' = exc
              /\ stage_result' =
                    Stage(missing[didx], "search", Truthy(discover_website(outcome)))
              /\ restaurants' =
                    IF Truthy(discover_website(outcome))
                    THEN [restaurants EXCEPT ![missing[didx]] =
                            [@ EXCEPT !.website = discover_website(outcome),
                                      !.data_sources = AddSource(@, "web_search")]]
                    ELSE restaurants
              /\ didx' = didx + 1
              /\ pc' = IF didx + 1 > Len(missing) THEN AfterDiscover ELSE "discover_search"
    /\ UNCHANGED <<opts, idx, browserVars, cur, used, missing, enrichFrame>>

NextDiscovery == DiscoverStart \/ DiscoverSearch

\* The cleaned entity list handed to discovery and enrichment: distinct
\* names, each entity without a website, with a malformed or an http(s) one
EntityNames == <<<<"a">>, <<"b">>, <<"a", "b">>, <<"b", "a">>>>

EntityHosts == <<"a.at", "b.at", "c.at", "d.at">>

EntityAt(i) ==
    { Entity(EntityNames[i], w) :
        w \in {NoneUrl, <<"", EntityHosts[i]>>, <<"http://", EntityHosts[i]>>} }

EntityLists ==
    UNION { { l \in [1..n -> UNION { EntityAt(i) : i \in 1..n }] :
                \A i \in 1..n : l[i] \in EntityAt(i) } : n \in 1..MaxEntities }

\* A direct call of discover_missing_websites or of enrich_restaurants
InitEnrich ==
    /\ pc \in {"discover_start", "enrich_start"}
    /\ NoPureCall
    /\ entry = "enrich"
    /\ exc = "none"
    /\ attempt = 0
    /\ resp = NoResp
    /\ olog = <<>>
    /\ raw_elements = <<>>
    /\ dedup_in = <<>>
    /\ restaurants \in EntityLists
    /\ PipeIdle
    /\ opts \in { o \in [use_playwright : BOOLEAN, use_vision : BOOLEAN,
                        openai_api_key : {<<>>, <<"sk">>}] :
                    ~o.use_vision => o.openai_api_key = <<>> }
    /\ idx = 0
    /\ browser = "none"
    /\ pw_context = "none"
    /\ launches = 0
    /\ open_pages = 0
    /\ cur = NoCur
    /\ used = <<>>
    /\ since_req = 0
    /\ last_req = NoReq
    /\ gap = NoGap
    /\ stage_result = NoStage
    /\ missing = <<>>
    /\ didx = 0

NextEnrich == NextDiscovery \/ NextEnrichment

SpecEnrich == InitEnrich /\ [][NextEnrich]_vars

\* Both functions change the list they are given in place and return it
\* (website_discovery.py:391-449, websites.py:490-641), so a caller can run
\* one stage after another on the same list.  MaxStages is the number of
\* further stages after the first one; stages records them.
MaxStages == 1

NextStage ==
    /\ pc \in {AfterDiscover, "enrich_returned"}
    /\ Len(stages) < MaxStages
    /\ \E next \in {"discover", "enrich"} :
         /\ stages' = Append(stages, next)
         /\ pc' = IF next = "discover" THEN "discover_start" ELSE "enrich_start"
    /\ UNCHANGED <<callVars, exc, attempt, resp, olog, raw_elements, dedup_in,
                   restaurants, args, env_key, raw_file, clean_file, enrichVars>>

InitStages ==
    /\ InitEnrich
    /\ Len(restaurants) = 1

NextStages == NextDiscovery \/ NextEnrichment \/ NextStage

SpecStages == InitStages /\ [][NextStages]_vars

-----------------------------------------------------------------------------
(* Pipeline orchestrator: scraper/__main__.py and scraper/output.py *)

\* The limits tried on the command line (0 is "no limit")
Limits == {0, 1}

\* The command lines main() is started with.  --discover-websites is the
\* flag scraper/__init__.py:6 and website_discovery.py:11 document.
ArgSets ==
    [ enrich : BOOLEAN, enrich_js : BOOLEAN, enrich_vision : BOOLEAN,
      discover_websites : BOOLEAN, limit : Limits ]

\* __main__.py:193-228: the options the parser defines; parse_args() exits
\* with status 2 on any other
Recognized(a) == ~a.discover_websites

\* __main__.py:230-233: the sub-flags require --enrich
SubFlagsValid(a) == (a.enrich_js \/ a.enrich_vision) => a.enrich

\* Mutation: an empty result is processed like any other.
NoData_Never(raw) == FALSE

\* __main__.py:73: if not raw_elements
NoData(raw) == ~Truthy(raw)

\* output.py:28-33 and :60-65: the document written (its timestamp left out)
Payload(list) ==
    [restaurants |-> list, source |-> "openstreetmap", count |-> Len(list)]

\* __main__.py:96: restaurants[:limit]
Truncate(list, limit) ==
    IF limit > 0 /\ limit < Len(list) THEN SubSeq(list, 1, limit) ELSE list

\* Variables the orchestrator's own steps leave alone
runFrame == <<callVars, dedup_in, env_key, enrichVars>>

\* __main__.py:192-243: main() parses the command line and starts run()
Main ==
    /\ pc = "main"
    /\ IF Recognized(args) /\ SubFlagsValid(args)
       THEN /\ pc' = "run_start"
            /\ exc' = exc
       ELSE /\ pc' = "usage_error"
            /\ exc' = "SystemExit"
    /\ UNCHANGED <<attempt, resp, olog, raw_elements, restaurants, args, stages,
                   raw_file, clean_file, runFrame>>

\* __main__.py:70-72: run() calls scrape_overpass()
RunFetch ==
    /\ pc = "run_start"
    /\ stages' = Append(stages, "fetch")
    /\ pc' = "scrape_start"
    /\ UNCHANGED <<exc, attempt, resp, olog, raw_elements, restaurants, args,
                   raw_file, clean_file, runFrame>>

\* __main__.py:72-75: scrape_overpass() has returned; an empty result ends
\* the run
RunAfterFetch ==
    /\ pc = "scrape_returned"
    /\ entry = "main"
    /\ pc' = IF NoData(raw_elements) THEN "done" ELSE "write_raw"
    /\ attempt' = 0
    /\ resp' = NoResp
    /\ olog' = <<>>
    /\ UNCHANGED <<exc, raw_elements, restaurants, args, stages, raw_file,
                   clean_file, runFrame>>

\* __main__.py:72 and :118: an exception leaves scrape_overpass() or
\* enrich_restaurants(); run() catches nothing
RunRaised ==
    /\ pc \in {"scrape_raised", "enrich_raised"}
    /\ entry = "main"
    /\ pc' = "crashed"
    /\ attempt' = 0
    /\ resp' = NoResp
    /\ olog' = <<>>
    /\ UNCHANGED <<exc, raw_elements, restaurants, args, stages, raw_file,
                   clean_file, runFrame>>

\* __main__.py:77-79 with output.py:12-39
WriteRaw ==
    /\ pc = "write_raw"
    /\ raw_file' = Payload(raw_elements)
    /\ pc' = "parse"
    /\ UNCHANGED <<exc, attempt, resp, olog, raw_elements, restaurants, args,
                   stages, clean_file, runFrame>>

\* __main__.py:81-83: restaurants = [raw_to_restaurant(el) for el in raw_elements]
Parse ==
    /\ pc = "parse"
    /\ restaurants' = [i \in 1..Len(raw_elements) |-> raw_to_restaurant(raw_elements[i])]
    /\ stages' = Append(stages, "normalize")
    /\ pc' = "dedup"
    /\ UNCHANGED <<exc, attempt, resp, olog, raw_elements, args, raw_file,
                   clean_file, runFrame>>

\* __main__.py:89-96: the optional limit
Limit ==
    /\ pc = "limit"
    /\ restaurants' = Truncate(restaurants, args.limit)
    /\ pc' = "enrich_option"
    /\ UNCHANGED <<exc, attempt, resp, olog, raw_elements, args, stages, raw_file,
                   clean_file, runFrame>>

\* __main__.py:98-123: enrichment was requested; the API key is read from
\* the environment when vision is on
RunEnrich ==
    /\ pc = "enrich_option"
    /\ args.enrich
    /\ opts' = [ use_playwright |-> args.enrich_js,
                 use_vision |-> args.enrich_vision,
                 openai_api_key |-> IF args.enrich_vision THEN env_key ELSE <<>> ]
    /\ stages' = Append(stages, "enrich")
    /\ pc' = "enrich_start"
    /\ UNCHANGED <<callVars, exc, attempt, resp, olog, raw_elements, dedup_in,
                   restaurants, args, env_key, raw_file, clean_file, idx,
                   browserVars, cur, used, timeVars, stage_result, discVars>>

\* __main__.py:124-125: enrichment was not requested
RunSkipEnrich ==
    /\ pc = "enrich_option"
    /\ ~args.enrich
    /\ pc' = "write_clean"
    /\ UNCHANGED <<exc, attempt, resp, olog, raw_elements, restaurants, args,
                   stages, raw_file, clean_file, runFrame>>

\* __main__.py:127-132 with output.py:42-71
WriteClean ==
    /\ pc = "write_clean"
    /\ clean_file' = Payload(restaurants)
    /\ pc' = "done"
    /\ UNCHANGED <<exc, attempt, resp, olog, raw_elements, restaurants, args,
                   stages, raw_file, runFrame>>

NextRun ==
    \/ Main
    \/ RunFetch
    \/ NextScrape
    \/ RunAfterFetch
    \/ RunRaised
    \/ WriteRaw
    \/ Parse
    \/ Deduplicate
    \/ Limit
    \/ RunEnrich
    \/ RunSkipEnrich
    \/ NextEnrichment
    \/ WriteClean

\* python -m scraper with some command line and environment
InitRun ==
    /\ pc = "main"
    /\ NoPureCall
    /\ entry = "main"
    /\ exc = "none"
    /\ attempt = 0
    /\ resp = NoResp
    /\ olog = <<>>
    /\ raw_elements = <<>>
    /\ dedup_in = <<>>
    /\ restaurants = <<>>
    /\ args \in ArgSets
    /\ env_key \in {<<>>, <<"sk">>}
    /\ stages = <<>>
    /\ raw_file = <<>>
    /\ clean_file = <<>>
    /\ EnrichIdle

SpecRun == InitRun /\ [][NextRun]_vars

-----------------------------------------------------------------------------
(* Menu item extraction: scraper/websites.py and scraper/menu_vision.py *)

\* Longest list handed to an extraction strategy
MaxNodes == 2

\* n times the character c
Rep(c, n) == [i \in 1..n |-> c]

\* s[:n]
Take(s, n) == IF Len(s) > n THEN SubSeq(s, 1, n) ELSE s

\* The category labels of _CATEGORY_HINTS (websites.py:50-93) and of the
\* extraction prompt (menu_vision.py:35), and two labels outside them
CatStarter == <<"S", "t", "a", "r", "t", "e", "r">>

CatMain == <<"M", "a", "i", "n">>

CatDessert == <<"D", "e", "s", "s", "e", "r", "t">>

CatDrink == <<"D", "r", "i", "n", "k">>

CatPizza == <<"P", "i", "z", "z", "a">>

CatPasta == <<"P", "a", "s", "t", "a">>

CatSushi == <<"S", "u", "s", "h", "i">>

CatSoup == <<"S", "o", "u", "p">>

CatSalad == <<"S", "a", "l", "a", "d">>

CatBurger == <<"B", "u", "r", "g", "e", "r">>

CatOther == <<"O", "t", "h", "e", "r">>

CatMittag == <<"M", "i", "t", "t", "a", "g">>

\* Item names as the sources give them
ItemNameTexts ==
    { <<"a", "b">>, <<"A", "b">>, <<" ", "a", "b">>, <<"a">>, <<" ">>,
      <<"a", "b", "c">>, Rep("x", 201) }

\* Price texts as the sources give them ("" when none)
PriceTexts == { <<>>, <<"5">> }

MenuItem(name, price, category) ==
    [name |-> name, price |-> price, category |-> category]

\* JSON-LD nodes: a MenuItem with its name and its offer's price, a
\* MenuSection with or without a name, a Menu, a node of another type
MenuItemNodes ==
    { [type |-> "MenuItem", name |-> n, price |-> p] :
        n \in ItemNameTexts, p \in PriceTexts }

LeafLists == { <<>> } \cup { <<x>> : x \in { m \in MenuItemNodes : m.price = <<>> } }

MenuSectionNodes ==
    { [type |-> "MenuSection", name |-> n, hasMenuItem |-> l] :
        n \in {CatPizza, CatMittag}, l \in LeafLists }
      \cup { [type |-> "MenuSection", hasMenuItem |-> l] : l \in LeafLists }

JsonldNodes ==
    MenuItemNodes \cup MenuSectionNodes
      \cup { [type |-> "Menu", hasMenuSection |-> <<s>>, hasMenuItem |-> <<>>] :
               s \in { x \in MenuSectionNodes : x.hasMenuItem # <<>> } }
      \cup { [type |-> "Restaurant"] }

\* websites.py:264-269: the offer's price with its currency ("€" by default)
JsonldPrice(obj) == IF obj.price = <<>> THEN <<>> ELSE <<"€">> \o obj.price

\* websites.py:244-300: the items a node adds to the list (the generic
\* container keys of :292-300 are not among the nodes modelled)
RECURSIVE _walk_jsonld(_, _)
RECURSIVE WalkChildren(_, _, _)
WalkChildren(children, i, category) ==
    IF i > Len(children) THEN <<>>
    ELSE _walk_jsonld(children[i], category) \o WalkChildren(children, i + 1, category)

_walk_jsonld(obj, category) ==
    IF obj.type = "MenuSection"
    THEN WalkChildren(obj.hasMenuItem, 1,
                      IF "name" \in DOMAIN obj THEN obj.name ELSE category)
    ELSE IF obj.type = "MenuItem"
    THEN IF Strip(obj.name) = <<>> THEN <<>>
         ELSE <<MenuItem(Strip(obj.name), JsonldPrice(obj), category)>>
    ELSE IF obj.type = "Menu"
    THEN WalkChildren(obj.hasMenuSection, 1, category)
            \o WalkChildren(obj.hasMenuItem, 1, category)
    ELSE <<>>

\* websites.py:225-241: every object of every JSON-LD block, in order
JsonldItems(objects) == WalkChildren(objects, 1, CatOther)

\* websites.py:50-93: _CATEGORY_HINTS, in dict order
_CATEGORY_HINTS ==
    << [category |-> CatStarter,
        keywords |-> {"starter", "vorspeise", "antipast", "appetizer", "entrée",
                      "small plate"}],
       [category |-> CatMain,
        keywords |-> {"main", "hauptgericht", "hauptspeise", "entrée", "second",
                      "piatti", "gericht"}],
       [category |-> CatDessert,
        keywords |-> {"dessert", "nachspeise", "süß", "dolci", "sweet", "nachtisch"}],
       [category |-> CatDrink,
        keywords |-> {"drink", "getränk", "beverage", "cocktail", "wein", "wine",
                      "beer", "bier", "saft", "juice", "kaffee", "coffee"}],
       [category |-> CatPizza, keywords |-> {"pizza"}],
       [category |-> CatPasta, keywords |-> {"pasta", "nudel"}],
       [category |-> CatSushi, keywords |-> {"sushi", "maki", "nigiri", "sashimi"}],
       [category |-> CatSoup, keywords |-> {"soup", "suppe"}],
       [category |-> CatSalad, keywords |-> {"salad", "salat"}],
       [category |-> CatBurger, keywords |-> {"burger"}] >>

\* websites.py:182-188: the first category one of whose keywords the
\* lower-cased heading contains (a heading is given by the keywords in it)
RECURSIVE InferFrom(_, _)
InferFrom(found, i) ==
    IF i > Len(_CATEGORY_HINTS) THEN CatOther
    ELSE IF _CATEGORY_HINTS[i].keywords \cap found # {} THEN _CATEGORY_HINTS[i].category
    ELSE InferFrom(found, i + 1)

_infer_category(heading) == InferFrom(heading.found, 1)

\* websites.py:40-47: _PRICE_RE, a euro amount written as "€ 12,50",
\* "12,50 €" or "EUR 12,50" (any case), the amount being digits with an
\* optional "." or "," and one or two more digits.  Positions are indices
\* into the text; an end of 0 means "no match here".

\* The position after the white space that starts at i
RECURSIVE SkipSpaces(_, _)
SkipSpaces(s, i) == IF i <= Len(s) /\ IsSpace(s[i]) THEN SkipSpaces(s, i + 1) ELSE i

\* The last position of the run of digits that starts at i (i - 1 if none)
RECURSIVE DigitsEnd(_, _)
DigitsEnd(s, i) == IF i <= Len(s) /\ IsDigit(s[i]) THEN DigitsEnd(s, i + 1) ELSE i - 1

\* \d+(?:[.,]\d{1,2})? matched greedily from i: its last position, or 0
AmountEnd(s, i) ==
    LET d == DigitsEnd(s, i)
    IN  IF d < i THEN 0
        ELSE IF d + 2 <= Len(s) /\ s[d + 1] \in {".", ","} /\ IsDigit(s[d + 2])
             THEN IF d + 3 <= Len(s) /\ IsDigit(s[d + 3]) THEN d + 3 ELSE d + 2
        ELSE d

\* The last position of the match of _PRICE_RE that starts at i, or 0.  In
\* the second form nothing but white space and the sign can follow the
\* amount, so a shorter amount never makes a match the greedy one missed.
PriceEnd(s, i) ==
    IF s[i] = "€" THEN AmountEnd(s, SkipSpaces(s, i + 1))
    ELSE IF IsDigit(s[i])
         THEN LET k == SkipSpaces(s, AmountEnd(s, i) + 1)
              IN  IF k <= Len(s) /\ s[k] = "€" THEN k ELSE 0
    ELSE IF i + 2 <= Len(s) /\ StrLower(SubSeq(s, i, i + 2)) = <<"e", "u", "r">>
         THEN AmountEnd(s, SkipSpaces(s, i + 3))
    ELSE 0

\* The start of the leftmost match of _PRICE_RE at or after i, or 0
PriceStart(text, i) ==
    LET starts == { j \in i..Len(text) : PriceEnd(text, j) > 0 }
    IN  IF starts = {} THEN 0 ELSE CHOOSE j \in starts : \A k \in starts : j <= k

\* websites.py:191-196: the first match of _PRICE_RE, trimmed; <<>> is None
_extract_price(text) ==
    LET m == PriceStart(text, 1)
    IN  IF m = 0 THEN <<>> ELSE Strip(SubSeq(text, m, PriceEnd(text, m)))

\* websites.py:343: _PRICE_RE.sub("", text), from position i on: every
\* match, found from left to right without overlap, is taken out
RECURSIVE RemovePrices(_, _)
RemovePrices(text, i) ==
    LET m == PriceStart(text, i)
    IN  IF m = 0 THEN SubSeq(text, i, Len(text))
        ELSE SubSeq(text, i, m - 1) \o RemovePrices(text, PriceEnd(text, m) + 1)

\* One of . - and the en and em dashes, written here by name
IsSeparator(c) == c \in {".", "-", "endash", "emdash"}

\* websites.py:345: re.sub(r"[\.\-–—]+\s*$", "", name) on a trimmed name
RECURSIVE RStripSeparators(_)
RStripSeparators(s) ==
    IF s # <<>> /\ IsSeparator(s[Len(s)])
    THEN RStripSeparators(SubSeq(s, 1, Len(s) - 1)) ELSE s

\* websites.py:346: re.sub(r"^\s*[\.\-–—]+", "", name) on a trimmed name
RECURSIVE LStripSeparators(_)
LStripSeparators(s) ==
    IF s # <<>> /\ IsSeparator(Head(s)) THEN LStripSeparators(Tail(s)) ELSE s

\* websites.py:343-346: the dish name left when the prices are taken out
DishName(text) ==
    Strip(LStripSeparators(Strip(RStripSeparators(Strip(RemovePrices(text, 1))))))

\* Block elements of a page in document order, each with the text that
\* element.get_text(separator=" ", strip=True) gives for it (websites.py:323).
\* A heading is given by the length of its text and the category keywords
\* in it; a text of fewer than three characters holds no keyword.
HeadingElements ==
    { [tag |-> "h2", chars |-> 12, found |-> f] :
        f \in { {}, {"pizza"}, {"entrée"}, {"suppe", "salat"} } }
      \cup { [tag |-> "h2", chars |-> n, found |-> {}] : n \in {0, 2} }

BlockTexts ==
    { <<"W", "i", "e", "n", "e", "r", " ", "S", "c", "h", "n", "i", "t", "z", "e", "l", " ", ".", ".", ".", " ", "€", "1", "4", ",", "9", "0">>,
      <<"a", "b", "c", " ", "€", "5">>, <<"A", "b", "c", " ", "5", "€">>, <<"a", "b", "c", " ", ".", " ", "-", " ", "€", "5">>, <<"-", " ", "a", "b", "c", " ", "5", ",", "5", "0", " ", "€">>, <<"a", "b", " ", "€", "5">>, <<"a", "b", "c">>, <<"€", "5">>,
      <<"a", "b", "c", " ", "€", "5", " ", "d", "e", "f", " ", "€", "7">>, <<"E", "u", "r", " ", "1", "2", " ", "a", "b", "c">>, <<"1", "2", ",", "3", "4", "5", "€", " ", "a", "b", "c">>,
      Rep("x", 121) \o <<" ", "€", "5">>, Rep("x", 198) \o <<" ", "€", "5">>,
      <<"a", "b", "c", " ", "€">> \o Rep("9", 50) }

BlockElements == { [tag |-> "div", text |-> x] : x \in BlockTexts }

HtmlElements == HeadingElements \cup BlockElements

\* websites.py:316-357: the loop over the elements, from position i on
RECURSIVE HeuristicLoop(_, _, _)
HeuristicLoop(elements, i, current_category) ==
    IF i > Len(elements) THEN <<>>
    ELSE LET e == elements[i]
         IN  IF e.tag = "h2"
             THEN IF e.chars < 3
                  THEN HeuristicLoop(elements, i + 1, current_category)
                  ELSE HeuristicLoop(elements, i + 1, _infer_category(e))
             ELSE IF \/ Len(e.text) < 3
                     \/ Len(e.text) > 200
                     \/ _extract_price(e.text) = <<>>
                     \/ Len(DishName(e.text)) < 3
                     \/ Len(DishName(e.text)) > 120
                  THEN HeuristicLoop(elements, i + 1, current_category)
                  ELSE <<MenuItem(DishName(e.text), _extract_price(e.text),
                                  current_category)>>
                          \o HeuristicLoop(elements, i + 1, current_category)

\* websites.py:359-366: deduplicate by lower-cased name, keep first
RECURSIVE UniqueByName(_, _, _)
UniqueByName(items, i, seen) ==
    IF i > Len(items) THEN <<>>
    ELSE IF StrLower(items[i].name) \notin seen
         THEN <<items[i]>> \o UniqueByName(items, i + 1, seen \cup {StrLower(items[i].name)})
         ELSE UniqueByName(items, i + 1, seen)

\* websites.py:303-368
HeuristicItems(elements) == UniqueByName(HeuristicLoop(elements, 1, CatOther), 1, {})

\* What json.loads makes of a model response: nothing ("invalid"), a value
\* that is no list ("object"), or a list of entries; an entry is a dict with
\* or without the keys name, price and category, or no dict at all
\* The JSON value null, which json.loads turns into None
JsonNull == <<"null">>

\* str(value) of a JSON string or of None
Str(value) == IF value = JsonNull THEN <<"N", "o", "n", "e">> ELSE value

EntriesOver(names) ==
    { [name |-> n, price |-> p, category |-> c] :
        n \in names, p \in {<<"5">>, Rep("9", 51)}, c \in {CatPizza, CatMittag} }
      \cup { [name |-> n] : n \in names }
      \cup { [price |-> <<"5">>], [nodict |-> TRUE],
              [name |-> <<"a", "b">>, price |-> JsonNull, category |-> JsonNull],
              [name |-> JsonNull] }

ResponsesOver(entries) ==
    { [json |-> "invalid"], [json |-> "object"] }
      \cup { [json |-> "list", entries |-> l] :
               l \in UNION { [1..n -> entries] : n \in 0..MaxNodes } }

\* Responses that are no JSON as a whole: the text from the first "[" to
\* the last "]" is a list ("embedded"), or the nesting is deeper than the
\* decoder's recursion limit ("too_deep")
OddResponses ==
    { [json |-> "too_deep"] }
      \cup { [json |-> "embedded", entries |-> l] :
               l \in UNION { [1..n -> EntriesOver({<<"a", "b">>, <<"c">>})] :
                               n \in 0..MaxNodes } }

\* A name whose first 200 characters end in blanks
PaddedName == <<"a">> \o Rep(" ", 199) \o <<"b">>

VisionResponses ==
    ResponsesOver(EntriesOver(
        { <<"a", "b">>, <<"A", "b">>, <<"a">>, <<" ">>, Rep("x", 201), PaddedName }))
      \cup OddResponses

\* dict.get(key, default) on an entry
EntryGet(e, key, default) == IF key \in DOMAIN e THEN e[key] ELSE default

\* menu_vision.py:258-273: the loop over the entries, from position i on
RECURSIVE CleanEntries(_, _)
CleanEntries(entries, i) ==
    IF i > Len(entries) THEN <<>>
    ELSE LET e == entries[i]
             name == Strip(Str(EntryGet(e, "name", <<>>)))
         IN  IF "nodict" \in DOMAIN e \/ name = <<>> \/ Len(name) < 2
             THEN CleanEntries(entries, i + 1)
             ELSE <<MenuItem(Take(name, 200),
                             Take(Str(EntryGet(e, "price", <<>>)), 50),
                             Take(Str(EntryGet(e, "category", CatOther)), 50))>>
                     \o CleanEntries(entries, i + 1)

\* menu_vision.py:241-242: json.loads raises RecursionError, which is no
\* JSONDecodeError, on nesting deeper than the recursion limit
ParseRaises(content) == content.json = "too_deep"

\* menu_vision.py:228-275, when it returns
_parse_json_response(content) ==
    IF content.json \in {"list", "embedded"} THEN CleanEntries(content.entries, 1)
    ELSE <<>>

\* menu_vision.py:163-200: one image; a failed API call or parse gives []
_extract_menu_from_image(response) ==
    IF response.json = "error" \/ ParseRaises(response) THEN <<>>
    ELSE _parse_json_response(response)

\* The model's answers for the pages of a PDF
PageResponses ==
    { [json |-> "error"] }
      \cup ResponsesOver({ [name |-> n] : n \in { <<"a", "b">>, <<"A", "b", " ">>, <<"c", "d">> } })

\* menu_vision.py:209-218: the loop over the images and their items
RECURSIVE ImagesLoop(_, _, _)
RECURSIVE ImageItemsLoop(_, _, _, _, _)
ImagesLoop(image_list, i, seen_names) ==
    IF i > Len(image_list) THEN <<>>
    ELSE ImageItemsLoop(image_list, i, _extract_menu_from_image(image_list[i]), 1,
                        seen_names)

ImageItemsLoop(image_list, i, items, k, seen_names) ==
    IF k > Len(items) THEN ImagesLoop(image_list, i + 1, seen_names)
    ELSE LET key == Strip(StrLower(items[k].name))
         IN  IF key # <<>> /\ key \notin seen_names
             THEN <<items[k]>>
                     \o ImageItemsLoop(image_list, i, items, k + 1, seen_names \cup {key})
             ELSE ImageItemsLoop(image_list, i, items, k + 1, seen_names)

\* menu_vision.py:203-220
_extract_menu_from_images(image_list) == ImagesLoop(image_list, 1, {})

\* The variables of the pipeline stages, which a pure function leaves alone
stageVars ==
    <<exc, attempt, resp, olog, raw_elements, dedup_in, restaurants, pipeVars,
      enrichVars>>

\* No pipeline stage is running
StagesIdle ==
    /\ exc = "none"
    /\ attempt = 0
    /\ resp = NoResp
    /\ olog = <<>>
    /\ raw_elements = <<>>
    /\ dedup_in = <<>>
    /\ restaurants = <<>>
    /\ PipeIdle
    /\ EnrichIdle

\* websites.py:225-241 called on the JSON-LD objects of a page
ExtractFromJsonld ==
    /\ pc = "call"
    /\ entry = "_extract_from_jsonld"
    /\ ret' = Returned(JsonldItems(arg))
    /\ pc' = "returned"
    /\ UNCHANGED <<entry, arg, stageVars>>

\* websites.py:303-368 called on the block elements of a page
ExtractFromHtmlHeuristic ==
    /\ pc = "call"
    /\ entry = "_extract_from_html_heuristic"
    /\ ret' = Returned(HeuristicItems(arg))
    /\ pc' = "returned"
    /\ UNCHANGED <<entry, arg, stageVars>>

\* menu_vision.py:228-275 called on a model response (text parse or single image)
ParseJsonResponse ==
    /\ pc = "call"
    /\ entry = "_parse_json_response"
    /\ IF ParseRaises(arg)
       THEN /\ exc' = "RecursionError"
            /\ pc' = "raised"
            /\ ret' = ret
       ELSE /\ exc' = exc
            /\ pc' = "returned"
            /\ ret' = Returned(_parse_json_response(arg))
    /\ UNCHANGED <<entry, arg, attempt, resp, olog, raw_elements, dedup_in, restaurants,
                   pipeVars, enrichVars>>

\* menu_vision.py:203-220 called on the pages of a PDF
ExtractMenuFromImages ==
    /\ pc = "call"
    /\ entry = "_extract_menu_from_images"
    /\ ret' = Returned(_extract_menu_from_images(arg))
    /\ pc' = "returned"
    /\ UNCHANGED <<entry, arg, stageVars>>

NextItems ==
    \/ ExtractFromJsonld
    \/ ExtractFromHtmlHeuristic
    \/ ParseJsonResponse
    \/ ExtractMenuFromImages

ListsOver(S) == UNION { [1..n -> S] : n \in 0..MaxNodes }

\* One extraction strategy is applied to one source
InitItems ==
    /\ pc = "call"
    /\ \/ entry = "_extract_from_jsonld" /\ arg \in ListsOver(JsonldNodes)
       \/ entry = "_extract_from_html_heuristic" /\ arg \in ListsOver(HtmlElements)
       \/ entry = "_parse_json_response" /\ arg \in VisionResponses
       \/ entry = "_extract_menu_from_images" /\ arg \in ListsOver(PageResponses)
    /\ ret = NotReturned
    /\ StagesIdle

SpecItems == InitItems /\ [][NextItems]_vars

-----------------------------------------------------------------------------
(* Website matcher (website_discovery.py)                                  *)
(*                                                                         *)
(* _pick_best_url is a pure function of the search results and the entity  *)
(* name.  URLs, titles, snippets and names are texts; None is the empty    *)
(* text, which the matcher never returns as a URL.                         *)

\* Number of search results handed to the matcher
MaxResults == 2

\* str.startswith
StartsWith(s, p) == Len(p) <= Len(s) /\ SubSeq(s, 1, Len(p)) = p

\* str.endswith
EndsWith(s, p) == Len(p) <= Len(s) /\ SubSeq(s, Len(s) - Len(p) + 1, Len(s)) = p

\* `sub in s`, re.search of a literal
Contains(s, sub) ==
    \E i \in 0..(Len(s) - Len(sub)) : SubSeq(s, i + 1, i + Len(sub)) = sub

\* s.replace(old, "")
RECURSIVE Remove(_, _)
Remove(s, old) ==
    IF Len(s) < Len(old) \/ s = <<>> THEN s
    ELSE IF StartsWith(s, old) THEN Remove(SubSeq(s, Len(old) + 1, Len(s)), old)
    ELSE <<Head(s)>> \o Remove(Tail(s), old)

RECURSIVE DropRun(_, _)
DropRun(s, seps) ==
    IF s # <<>> /\ Head(s) \in seps THEN DropRun(Tail(s), seps) ELSE s

\* re.split(r"[seps]+", s), piece being the text read since the last run
RECURSIVE ReSplit(_, _, _)
ReSplit(s, seps, piece) ==
    IF s = <<>> THEN <<piece>>
    ELSE IF Head(s) \in seps
         THEN <<piece>> \o ReSplit(DropRun(Tail(s), seps), seps, <<>>)
    ELSE ReSplit(Tail(s), seps, Append(piece, Head(s)))

\* Position of the first c in s at or after i (0 when there is none)
FirstOf(s, cs) ==
    IF \E i \in 1..Len(s) : s[i] \in cs
    THEN CHOOSE i \in 1..Len(s) : s[i] \in cs /\ \A j \in 1..(i - 1) : s[j] \notin cs
    ELSE 0

\* Position of the last "." in s (0 when there is none)
LastDot(s) ==
    IF \E i \in 1..Len(s) : s[i] = "."
    THEN CHOOSE i \in 1..Len(s) : s[i] = "." /\ \A j \in (i + 1)..Len(s) : s[j] # "."
    ELSE 0

\* s.rsplit(".", maxsplit=n)
RECURSIVE RSplit(_, _)
RSplit(s, n) ==
    IF n = 0 \/ LastDot(s) = 0 THEN <<s>>
    ELSE RSplit(SubSeq(s, 1, LastDot(s) - 1), n - 1)
             \o <<SubSeq(s, LastDot(s) + 1, Len(s))>>

RECURSIVE SumSeq(_)
SumSeq(s) == IF s = <<>> THEN 0 ELSE Head(s) + SumSeq(Tail(s))

SchemeChars ==
    { "a", "b", "c", "d", "e", "f", "g", "h", "i", "j", "k", "l", "m", "n", "o",
      "p", "q", "r", "s", "t", "u", "v", "w", "x", "y", "z", "0", "1", "2", "3",
      "4", "5", "6", "7", "8", "9", "+", "-", "." }

\* urllib.parse.urlparse(url).netloc: the text between "scheme://" and the
\* next "/", "?" or "#"; empty when the URL has no "//" after its scheme
Netloc(url) ==
    LET colon == FirstOf(url, {":"})
        hasScheme ==
            /\ colon > 1
            /\ \A i \in 1..(colon - 1) : Lower(url[i]) \in SchemeChars
        rest == IF hasScheme THEN SubSeq(url, colon + 1, Len(url)) ELSE url
        after == SubSeq(rest, 3, Len(rest))
        stop == FirstOf(after, {"/", "?", "#"})
    IN  IF ~StartsWith(rest, <<"/", "/">>) THEN <<>>
        ELSE IF stop = 0 THEN after
        ELSE SubSeq(after, 1, stop - 1)

\* urlparse raises ValueError("Invalid IPv6 URL") on an unbalanced bracket
UrlparseRaises(url) ==
    (\E i \in 1..Len(Netloc(url)) : Netloc(url)[i] = "[")
        # (\E i \in 1..Len(Netloc(url)) : Netloc(url)[i] = "]")

_MIN_SCORE == 3

_SKIP_DOMAINS ==
    { <<"g", "o", "o", "g", "l", "e", ".", "c", "o", "m">>,
      <<"g", "o", "o", "g", "l", "e", ".", "a", "t">>,
      <<"m", "a", "p", "s", ".", "g", "o", "o", "g", "l", "e", ".", "c", "o", "m">>,
      <<"f", "a", "c", "e", "b", "o", "o", "k", ".", "c", "o", "m">>,
      <<"i", "n", "s", "t", "a", "g", "r", "a", "m", ".", "c", "o", "m">>,
      <<"y", "o", "u", "t", "u", "b", "e", ".", "c", "o", "m">>,
      <<"t", "i", "k", "t", "o", "k", ".", "c", "o", "m">>,
      <<"t", "w", "i", "t", "t", "e", "r", ".", "c", "o", "m">>,
      <<"x", ".", "c", "o", "m">>,
      <<"l", "i", "n", "k", "e", "d", "i", "n", ".", "c", "o", "m">>,
      <<"p", "i", "n", "t", "e", "r", "e", "s", "t", ".", "c", "o", "m">>,
      <<"r", "e", "d", "d", "i", "t", ".", "c", "o", "m">>,
      <<"t", "r", "i", "p", "a", "d", "v", "i", "s", "o", "r", ".", "c", "o", "m">>,
      <<"t", "r", "i", "p", "a", "d", "v", "i", "s", "o", "r", ".", "a", "t">>,
      <<"t", "r", "i", "p", "a", "d", "v", "i", "s", "o", "r", ".", "d", "e">>,
      <<"y", "e", "l", "p", ".", "c", "o", "m">>,
      <<"y", "e", "l", "p", ".", "a", "t">>,
      <<"t", "h", "e", "f", "o", "r", "k", ".", "c", "o", "m">>,
      <<"q", "u", "a", "n", "d", "o", "o", ".", "a", "t">>,
      <<"q", "u", "a", "n", "d", "o", "o", ".", "c", "o", "m">>,
      <<"l", "i", "e", "f", "e", "r", "a", "n", "d", "o", ".", "a", "t">>,
      <<"l", "i", "e", "f", "e", "r", "a", "n", "d", "o", ".", "d", "e">>,
      <<"m", "j", "a", "m", ".", "n", "e", "t">>,
      <<"w", "o", "l", "t", ".", "c", "o", "m">>,
      <<"u", "b", "e", "r", ".", "c", "o", "m">>,
      <<"u", "b", "e", "r", "e", "a", "t", "s", ".", "c", "o", "m">>,
      <<"f", "o", "u", "r", "s", "q", "u", "a", "r", "e", ".", "c", "o", "m">>,
      <<"w", "i", "k", "i", "p", "e", "d", "i", "a", ".", "o", "r", "g">>,
      <<"d", "e", ".", "w", "i", "k", "i", "p", "e", "d", "i", "a", ".", "o", "r", "g">>,
      <<"e", "n", ".", "w", "i", "k", "i", "p", "e", "d", "i", "a", ".", "o", "r", "g">>,
      <<"h", "e", "r", "o", "l", "d", ".", "a", "t">>,
      <<"f", "a", "l", "t", "e", "r", ".", "a", "t">>,
      <<"f", "a", "l", "s", "t", "a", "f", "f", ".", "c", "o", "m">>,
      <<"f", "a", "l", "s", "t", "a", "f", "f", ".", "a", "t">>,
      <<"g", "r", "a", "z", ".", "a", "t">>,
      <<"s", "t", "a", "d", "t", "b", "e", "k", "a", "n", "n", "t", ".", "a", "t">>,
      <<"g", "a", "s", "t", "r", "o", "f", "i", "n", "d", "e", "r", ".", "a", "t">>,
      <<"r", "e", "s", "t", "a", "u", "r", "a", "n", "t", ".", "i", "n", "f", "o">>,
      <<"s", "p", "e", "i", "s", "e", "k", "a", "r", "t", "e", ".", "d", "e">>,
      <<"r", "e", "s", "t", "a", "u", "r", "a", "n", "t", "g", "u", "r", "u", ".", "c", "o", "m">>,
      <<"s", "m", "a", "r", "t", "g", "a", "s", "t", "r", "o", ".", "a", "t">> }

_GENERIC_BLOCKLIST ==
    { <<"z", "h", "i", "h", "u", ".", "c", "o", "m">>,
      <<"b", "a", "i", "d", "u", ".", "c", "o", "m">>,
      <<"w", "e", "i", "b", "o", ".", "c", "o", "m">>,
      <<"a", "n", "s", "w", "e", "r", "s", ".", "m", "i", "c", "r", "o", "s", "o", "f", "t", ".", "c", "o", "m">>,
      <<"l", "e", "a", "r", "n", ".", "m", "i", "c", "r", "o", "s", "o", "f", "t", ".", "c", "o", "m">>,
      <<"m", "i", "c", "r", "o", "s", "o", "f", "t", ".", "c", "o", "m">>,
      <<"s", "t", "a", "c", "k", "o", "v", "e", "r", "f", "l", "o", "w", ".", "c", "o", "m">>,
      <<"g", "i", "t", "h", "u", "b", ".", "c", "o", "m">>,
      <<"g", "i", "t", "l", "a", "b", ".", "c", "o", "m">>,
      <<"n", "u", "w", "a", "v", "e", "s", ".", "c", "o", "m">>,
      <<"f", "i", "n", "a", "n", "z", "t", "i", "p", ".", "d", "e">>,
      <<"c", "h", "e", "c", "k", "2", "4", ".", "d", "e">>,
      <<"s", "o", "f", "i", "f", "a", ".", "c", "o", "m">>,
      <<"t", "r", "a", "n", "s", "f", "e", "r", "m", "a", "r", "k", "t", ".", "a", "t">>,
      <<"t", "r", "a", "n", "s", "f", "e", "r", "m", "a", "r", "k", "t", ".", "d", "e">>,
      <<"k", "a", "f", "f", "e", "e", "-", "n", "e", "t", "z", ".", "d", "e">>,
      <<"c", "h", "e", "f", "k", "o", "c", "h", ".", "d", "e">>,
      <<"g", "a", "n", "z", "-", "w", "i", "e", "n", ".", "a", "t">>,
      <<"m", "e", "i", "n", "b", "e", "z", "i", "r", "k", ".", "a", "t">>,
      <<"w", "o", "g", "i", "b", "t", "s", "w", "a", "s", ".", "a", "t">>,
      <<"f", "o", "r", "d", "-", "t", "o", "r", "i", "n", "o", ".", "d", "e">>,
      <<"a", "u", "t", "o", "s", "c", "o", "u", "t", "2", "4", ".", "a", "t">>,
      <<"a", "u", "t", "o", "s", "c", "o", "u", "t", "2", "4", ".", "d", "e">>,
      <<"p", "a", "n", "t", "i", "p", ".", "c", "o", "m">>,
      <<"b", "e", "r", "g", "f", "e", "x", ".", "a", "t">>,
      <<"b", "e", "r", "g", "f", "e", "x", ".", "c", "o", "m">>,
      <<"s", "t", "a", "d", "t", "-", "s", "a", "l", "z", "b", "u", "r", "g", ".", "a", "t">>,
      <<"w", "i", "e", "n", ".", "g", "v", ".", "a", "t">>,
      <<"g", "r", "a", "z", ".", "g", "v", ".", "a", "t">> }

_PREFERRED_TLDS ==
    { <<".", "a", "t">>, <<".", "c", "o", ".", "a", "t">>,
      <<".", "o", "r", ".", "a", "t">> }

_ACCEPTABLE_TLDS ==
    { <<".", "c", "o", "m">>, <<".", "e", "u">>, <<".", "d", "e">>,
      <<".", "n", "e", "t">>, <<".", "o", "r", "g">>, <<".", "i", "o">> }

_SUSPECT_TLDS ==
    { <<".", "c", "n">>, <<".", "r", "u">>, <<".", "f", "i">>,
      <<".", "k", "r">>, <<".", "j", "p">>, <<".", "b", "r">>,
      <<".", "p", "l">>, <<".", "c", "z">>, <<".", "s", "k">> }

\* The alternatives of the pattern; it is searched with re.IGNORECASE
_NEGATIVE_DOMAIN_WORDS ==
    { <<"m", "i", "c", "r", "o", "s", "o", "f", "t">>,
      <<"a", "m", "a", "z", "o", "n">>, <<"a", "p", "p", "l", "e">>,
      <<"g", "o", "o", "g", "l", "e">>, <<"g", "i", "t", "h", "u", "b">>,
      <<"g", "i", "t", "l", "a", "b">>,
      <<"s", "t", "a", "c", "k", "o", "v", "e", "r", "f", "l", "o", "w">>,
      <<"w", "i", "k", "i", "p", "e", "d", "i", "a">>,
      <<"r", "e", "d", "d", "i", "t">>, <<"f", "o", "r", "u", "m">>,
      <<"w", "i", "k", "i">>, <<"n", "e", "w", "s">>,
      <<"f", "i", "n", "a", "n", "c", "e">>,
      <<"f", "i", "n", "a", "n", "z">>, <<"s", "p", "o", "r", "t">>,
      <<"f", "i", "f", "a">>, <<"f", "o", "o", "t", "b", "a", "l", "l">>,
      <<"s", "o", "c", "c", "e", "r">>, <<"a", "u", "t", "o">>,
      <<"f", "o", "r", "d">>, <<"v", "e", "h", "i", "c", "l", "e">>,
      <<"e", "l", "e", "c", "t", "r", "o", "n", "i", "c", "s">>,
      <<"s", "e", "m", "i", "c", "o", "n", "d", "u", "c", "t", "o", "r">>,
      <<"n", "u", "w", "a", "v", "e", "s">>,
      <<"a", "n", "s", "w", "e", "r", "s">>, <<"l", "e", "a", "r", "n">> }

\* The alternatives of the pattern; it is searched with re.IGNORECASE
_FOOD_SIGNALS ==
    { <<"r", "e", "s", "t", "a", "u", "r", "a", "n", "t">>,
      <<"g", "a", "s", "t", "h", "a", "u", "s">>,
      <<"g", "a", "s", "t", "h", "o", "f">>,
      <<"w", "i", "r", "t", "s", "h", "a", "u", "s">>,
      <<"p", "i", "z", "z", "e", "r", "i", "a">>,
      <<"t", "r", "a", "t", "t", "o", "r", "i", "a">>,
      <<"r", "i", "s", "t", "o", "r", "a", "n", "t", "e">>,
      <<"b", "i", "s", "t", "r", "o">>,
      <<"b", "r", "a", "s", "s", "e", "r", "i", "e">>,
      <<"l", "o", "k", "a", "l">>, <<"k", "ü", "c", "h", "e">>,
      <<"s", "p", "e", "i", "s", "e", "k", "a", "r", "t", "e">>,
      <<"m", "e", "n", "ü">>, <<"m", "e", "n", "u">>,
      <<"e", "s", "s", "e", "n">>,
      <<"r", "e", "s", "e", "r", "v", "i", "e", "r">>,
      <<"t", "i", "s", "c", "h", "r", "e", "s", "e", "r", "v", "i", "e", "r", "u", "n", "g">>,
      <<"b", "r", "u", "n", "c", "h">>, <<"m", "i", "t", "t", "a", "g">>,
      <<"a", "b", "e", "n", "d", "e", "s", "s", "e", "n">>,
      <<"c", "a", "f", "é">>, <<"c", "a", "f", "e">>,
      <<"k", "o", "n", "d", "i", "t", "o", "r", "e", "i">>,
      <<"b", "ä", "c", "k", "e", "r", "e", "i">>,
      <<"k", "e", "b", "a", "b">>, <<"s", "u", "s", "h", "i">>,
      <<"p", "i", "z", "z", "a">>, <<"b", "u", "r", "g", "e", "r">>,
      <<"b", "u", "s", "c", "h", "e", "n", "s", "c", "h", "a", "n", "k">>,
      <<"h", "e", "u", "r", "i", "g", "e", "r">>,
      <<"b", "e", "i", "s", "l">>, <<"s", "t", "ü", "b", "e", "r", "l">>,
      <<"k", "a", "n", "t", "i", "n", "e">>, <<"m", "e", "n", "s", "a">>,
      <<"g", "r", "a", "z">>,
      <<"s", "t", "e", "i", "e", "r", "m", "a", "r", "k">>,
      <<"s", "t", "y", "r", "i", "a">> }

stop_words ==
    { <<"t", "h", "e">>, <<"d", "a", "s">>, <<"d", "e", "r">>,
      <<"d", "i", "e">>, <<"u", "n", "d">>, <<"a", "n", "d">>,
      <<"v", "o", "n">>, <<"z", "u", "m">>, <<"z", "u", "r">>,
      <<"b", "a", "r">>, <<"c", "a", "f", "e">>, <<"c", "a", "f", "é">>,
      <<"r", "e", "s", "t", "a", "u", "r", "a", "n", "t">>,
      <<"g", "a", "s", "t", "h", "a", "u", "s">>,
      <<"g", "a", "s", "t", "h", "o", "f">>,
      <<"w", "i", "r", "t", "s", "h", "a", "u", "s">>,
      <<"p", "i", "z", "z", "e", "r", "i", "a">>,
      <<"t", "r", "a", "t", "t", "o", "r", "i", "a">>,
      <<"r", "i", "s", "t", "o", "r", "a", "n", "t", "e">>,
      <<"b", "i", "s", "t", "r", "o">>,
      <<"b", "r", "a", "s", "s", "e", "r", "i", "e">>,
      <<"l", "o", "k", "a", "l">>, <<"s", "t", "ü", "b", "e", "r", "l">>,
      <<"b", "e", "i", "s", "l">>, <<"k", "a", "n", "t", "i", "n", "e">>,
      <<"m", "e", "n", "s", "a">>,
      <<"b", "u", "s", "c", "h", "e", "n", "s", "c", "h", "a", "n", "k">>,
      <<"h", "e", "u", "r", "i", "g", "e", "r">>,
      <<"k", "o", "n", "d", "i", "t", "o", "r", "e", "i">>,
      <<"b", "ä", "c", "k", "e", "r", "e", "i">>, <<"g", "r", "a", "z">>,
      <<"s", "t", "e", "i", "e", "r", "m", "a", "r", "k">> }

Www == <<"w", "w", "w", ".">>

Graz == <<"g", "r", "a", "z">>

SecondLevels == { <<"c", "o">>, <<"o", "r">>, <<"a", "c">>, <<"g", "v">> }

NameSeparators == { " ", "\t", "\n", "-", "/", "&", "'", "+", ".", ",", "(", ")" }

DomainSeparators == { "-", ".", "_" }

\* Search results as DuckDuckGo returns them: href, title and body
SearchResults ==
    { [href |-> <<"h", "t", "t", "p", "s", ":", "/", "/", "w", "w", "w", ".", "c", "o", "r", "t", "i", ".", "a", "t", "/">>,
       title |-> <<"R", "i", "s", "t", "o", "r", "a", "n", "t", "e", " ", "C", "o", "r", "t", "i", " ", "G", "r", "a", "z">>],
      [href |-> <<"h", "t", "t", "p", "s", ":", "/", "/", "c", "o", "r", "t", "i", ".", "a", "t", "/">>,
       title |-> <<"W", "i", "l", "l", "k", "o", "m", "m", "e", "n", " ", "i", "n", " ", "G", "r", "a", "z">>],
      [href |-> <<"h", "t", "t", "p", "s", ":", "/", "/", "c", "o", "r", "t", "i", ".", "c", "o", ".", "k", "r", "/">>,
       title |-> <<"C", "o", "r", "t", "i", " ", "G", "r", "a", "z">>,
       body |-> <<"R", "e", "s", "t", "a", "u", "r", "a", "n", "t">>],
      [href |-> <<"h", "t", "t", "p", "s", ":", "/", "/", "c", "o", "r", "t", "i", ".", "r", "u", "/">>,
       title |-> <<"C", "o", "r", "t", "i", " ", "G", "r", "a", "z">>,
       body |-> <<>>],
      [href |-> <<"h", "t", "t", "p", "s", ":", "/", "/", "w", "w", "w", ".", "f", "a", "c", "e", "b", "o", "o", "k", ".", "c", "o", "m", "/", "c", "o", "r", "t", "i">>,
       title |-> <<"C", "o", "r", "t", "i", " ", "G", "r", "a", "z">>,
       body |-> <<>>],
      [href |-> <<"h", "t", "t", "p", "s", ":", "/", "/", "m", ".", "y", "e", "l", "p", ".", "c", "o", "m", "/", "g", "r", "a", "z">>,
       title |-> <<"C", "o", "r", "t", "i", " ", "G", "r", "a", "z">>,
       body |-> <<"c", "o", "r", "t", "i">>],
      [href |-> <<"h", "t", "t", "p", "s", ":", "/", "/", "p", "f", "i", "n", "g", "s", "t", "l", ".", "a", "t", "/">>,
       title |-> <<"P", "f", "i", "n", "g", "s", "t", "l">>,
       body |-> <<"E", "s", "s", "e", "n", " ", "i", "n", " ", "G", "r", "a", "z">>],
      [href |-> <<"h", "t", "t", "p", "s", ":", "/", "/", "l", "o", "k", "a", "l", ".", "a", "t", "/">>,
       title |-> <<"D", "a", "s", " ", "L", "o", "k", "a", "l">>,
       body |-> <<>>],
      [href |-> <<"h", "t", "t", "p", "s", ":", "/", "/", "e", "x", "a", "m", "p", "l", "e", ".", "c", "o", "m", "/">>,
       title |-> <<"C", "o", "r", "t", "i">>,
       body |-> <<>>],
      [href |-> <<"h", "t", "t", "p", "s", ":", "/", "/", "f", "o", "r", "u", "m", ".", "a", "t", "/">>,
       title |-> <<"F", "o", "r", "u", "m", " ", "G", "r", "a", "z">>,
       body |-> <<>>],
      [href |-> <<"h", "t", "t", "p", "s", ":", "/", "/", "h", "e", "r", "o", "l", "d", ".", "a", "t", "/">>,
       title |-> <<"H", "e", "r", "o", "l", "d", " ", "G", "r", "a", "z">>,
       body |-> <<>>],
      [href |-> <<"h", "t", "t", "p", "s", ":", "/", "/", "w", "w", "w", ".", "a", "t", "/">>,
       title |-> <<"G", "r", "a", "z">>,
       body |-> <<>>],
      [title |-> <<"C", "o", "r", "t", "i", " ", "G", "r", "a", "z">>,
       body |-> <<"c", "o", "r", "t", "i">>] }

MatcherNames ==
    { <<" ", "R", "i", "s", "t", "o", "r", "a", "n", "t", "e", " ", "C", "o", "r", "t", "i", " ">>,
      <<"F", "o", "r", "u", "m">>, <<"H", "e", "r", "o", "l", "d">>,
      <<"D", "a", "s", " ", "C", "a", "f", "e">>, <<"W", "w", "w">> }

\* website_discovery.py:177-190; the except branch answers True
_is_blocked(url) ==
    LET netloc == StrLower(Netloc(url))
        domain == IF StartsWith(netloc, Www) THEN SubSeq(netloc, 5, Len(netloc))
                  ELSE netloc
        all_blocked == _SKIP_DOMAINS \cup _GENERIC_BLOCKLIST
    IN  \/ UrlparseRaises(url)
        \/ domain \in all_blocked
        \/ \E b \in all_blocked : EndsWith(domain, <<".">> \o b)

\* website_discovery.py:193-200
_get_tld(domain) ==
    LET parts == RSplit(domain, 2)
        n == Len(parts)
    IN  IF n >= 3 /\ parts[n - 1] \in SecondLevels
        THEN <<".">> \o parts[n - 1] \o <<".">> \o parts[n]
        ELSE IF n >= 2 THEN <<".">> \o parts[n]
        ELSE <<>>

\* website_discovery.py:219-239: what one name token adds to the score;
\* the branches are tried in the order of the code
TokenScore(token, domain_base, domain_words) ==
    IF token \in domain_words THEN 4
    ELSE IF token = domain_base THEN 5
    ELSE IF EndsWith(domain_base, token) \/ StartsWith(domain_base, token) THEN 3
    ELSE IF \E word \in domain_words :
                /\ Len(word) > 2
                /\ Contains(word, token)
                /\ 10 * Len(token) > 6 * Len(word)
         THEN 2
    ELSE 0

\* website_discovery.py:203-241
_name_matches_domain(name_tokens, domain) ==
    LET domain_base == IF Contains(domain, <<".">>) THEN RSplit(domain, 1)[1]
                       ELSE domain
        pieces == ReSplit(domain_base, DomainSeparators, <<>>)
        domain_words == { pieces[i] : i \in 1..Len(pieces) }
    IN  SumSeq([i \in 1..Len(name_tokens) |->
                    TokenScore(name_tokens[i], domain_base, domain_words)])

\* website_discovery.py:256-275: the distinctive tokens of the entity name
NameTokens(restaurant_name) ==
    LET name_lower == Strip(StrLower(restaurant_name))
    IN  SelectSeq(ReSplit(name_lower, NameSeparators, <<>>),
                  LAMBDA t : t # <<>> /\ Len(t) > 2 /\ t \notin stop_words)

\* website_discovery.py:287: the domain the result is scored by
ResultDomain(url) == Remove(StrLower(Netloc(url)), Www)

\* website_discovery.py:284-295: the results dropped before scoring
HardSkip(result) ==
    LET url == EntryGet(result, "href", <<>>)
    IN  \/ url = <<>>
        \/ _is_blocked(url)
        \/ _get_tld(ResultDomain(url)) \in _SUSPECT_TLDS
        \/ \E word \in _NEGATIVE_DOMAIN_WORDS : Contains(ResultDomain(url), word)

\* website_discovery.py:300-305: name signals of a result
DomainNameScore(result, name_tokens) ==
    _name_matches_domain(name_tokens, ResultDomain(EntryGet(result, "href", <<>>)))

TitleNameHits(result, name_tokens) ==
    LET title == StrLower(EntryGet(result, "title", <<>>))
    IN  SumSeq([i \in 1..Len(name_tokens) |->
                    IF Contains(title, name_tokens[i]) THEN 1 ELSE 0])

\* website_discovery.py:332: "graz" in title or "graz" in snippet
HasLocationSignal(result) ==
    \/ Contains(StrLower(EntryGet(result, "title", <<>>)), Graz)
    \/ Contains(StrLower(EntryGet(result, "body", <<>>)), Graz)

\* website_discovery.py:297-324
Score(result, name_tokens) ==
    LET title == StrLower(EntryGet(result, "title", <<>>))
        snippet == StrLower(EntryGet(result, "body", <<>>))
        tld == _get_tld(ResultDomain(EntryGet(result, "href", <<>>)))
    IN  DomainNameScore(result, name_tokens)
        + TitleNameHits(result, name_tokens)
        + (IF Contains(title, Graz) THEN 2
           ELSE IF Contains(snippet, Graz) THEN 1 ELSE 0)
        + (IF tld \in _PREFERRED_TLDS THEN 2
           ELSE IF tld \in _ACCEPTABLE_TLDS THEN 1 ELSE 0)
        + (IF \E word \in _FOOD_SIGNALS : Contains(title, word) THEN 1 ELSE 0)
        + (IF \E word \in _FOOD_SIGNALS : Contains(snippet, word) THEN 1 ELSE 0)

\* The gate without the test of name_tokens: a city mention always passes
RelevanceGate_CityAlwaysPasses(result, name_tokens) ==
    LET has_name_signal ==
            \/ DomainNameScore(result, name_tokens) > 0
            \/ TitleNameHits(result, name_tokens) > 0
    IN  has_name_signal \/ HasLocationSignal(result)

\* The gate with the title as the only name signal
RelevanceGate_TitleOnly(result, name_tokens) ==
    LET has_name_signal == TitleNameHits(result, name_tokens) > 0
    IN  IF ~has_name_signal
        THEN IF name_tokens # <<>> THEN FALSE
             ELSE HasLocationSignal(result)
        ELSE TRUE

\* website_discovery.py:326-341: TRUE when the result is not skipped
RelevanceGate(result, name_tokens) ==
    LET has_name_signal ==
            \/ DomainNameScore(result, name_tokens) > 0
            \/ TitleNameHits(result, name_tokens) > 0
    IN  IF ~has_name_signal
        THEN IF name_tokens # <<>> THEN FALSE
             ELSE HasLocationSignal(result)
        ELSE TRUE

\* website_discovery.py:277-343: the (score, url) pairs in result order
RECURSIVE Candidates(_, _)
Candidates(results, name_tokens) ==
    IF results = <<>> THEN <<>>
    ELSE LET result == Head(results)
             rest == Candidates(Tail(results), name_tokens)
         IN  IF HardSkip(result) \/ ~RelevanceGate(result, name_tokens) THEN rest
             ELSE <<[score |-> Score(result, name_tokens),
                     url |-> EntryGet(result, "href", <<>>)]>> \o rest

\* A sort that puts the later of two equal scores first
RECURSIVE SortByScore_LastOfEqualFirst(_)
SortByScore_LastOfEqualFirst(candidates) ==
    IF candidates = <<>> THEN <<>>
    ELSE LET sorted == SortByScore_LastOfEqualFirst(
                           SubSeq(candidates, 1, Len(candidates) - 1))
             c == candidates[Len(candidates)]
             before == SelectSeq(sorted, LAMBDA d : d.score > c.score)
             after == SelectSeq(sorted, LAMBDA d : d.score <= c.score)
         IN  before \o <<c>> \o after

\* website_discovery.py:348: candidates.sort(key=score, reverse=True); the
\* sort is stable, equal scores keep their order
RECURSIVE SortByScore(_)
SortByScore(candidates) ==
    IF candidates = <<>> THEN <<>>
    ELSE LET sorted == SortByScore(SubSeq(candidates, 1, Len(candidates) - 1))
             c == candidates[Len(candidates)]
             before == SelectSeq(sorted, LAMBDA d : d.score >= c.score)
             after == SelectSeq(sorted, LAMBDA d : d.score < c.score)
         IN  before \o <<c>> \o after

\* website_discovery.py:244-361
_pick_best_url(results, restaurant_name) ==
    LET candidates == SortByScore(Candidates(results, NameTokens(restaurant_name)))
    IN  IF candidates = <<>> THEN NoneUrl
        ELSE IF candidates[1].score < _MIN_SCORE THEN NoneUrl
        ELSE candidates[1].url

\* _pick_best_url(arg.results, arg.name) is called and returns
PickBestUrl ==
    /\ pc = "call"
    /\ entry = "_pick_best_url"
    /\ ret' = Returned(_pick_best_url(arg.results, arg.name))
    /\ pc' = "returned"
    /\ UNCHANGED <<entry, arg, stageVars>>

\* _name_matches_domain(arg.tokens, arg.domain) is called and returns
NameMatchesDomain ==
    /\ pc = "call"
    /\ entry = "_name_matches_domain"
    /\ ret' = Returned(_name_matches_domain(arg.tokens, arg.domain))
    /\ pc' = "returned"
    /\ UNCHANGED <<entry, arg, stageVars>>

NextMatcher ==
    \/ PickBestUrl
    \/ NameMatchesDomain

\* Name tokens and domains handed to _name_matches_domain
ScoredTokens ==
    { <<"s", "c", "h", "w", "a", "l", "b", "e", "n">>,
      <<"m", "y", "_", "p", "l", "a", "c", "e">>,
      <<"a", "b", "c">>,
      <<"b", "c", "d">>,
      <<"c", "o", "r", "t", "i">>,
      <<"p", "h", "i", "l", "i", "p", "p">>,
      <<"t", "o", "r", "i", "n", "o">> }

ScoredDomains ==
    { <<"s", "c", "h", "w", "a", "l", "b", "e", "n", ".", "a", "t">>,
      <<"m", "y", "_", "p", "l", "a", "c", "e", ".", "a", "t">>,
      <<"a", "b", "c", "d", "e", ".", "a", "t">>,
      <<"r", "i", "s", "t", "o", "r", "a", "n", "t", "e", "c", "o", "r", "t", "i", ".", "a", "t">>,
      <<"k", "o", "n", "d", "i", "t", "o", "r", "e", "i", "-", "p", "h", "i", "l", "i", "p", "p", ".", "a", "t">>,
      <<"f", "o", "r", "d", "-", "t", "o", "r", "i", "n", "o", ".", "d", "e">>,
      <<"g", "r", "a", "z">> }

TokenLists == UNION { [1..n -> ScoredTokens] : n \in 0..MaxResults }

ResultLists == UNION { [1..n -> SearchResults] : n \in 0..MaxResults }

InitMatcher ==
    /\ pc = "call"
    /\ \/ /\ entry = "_pick_best_url"
          /\ arg \in [name : MatcherNames, results : ResultLists]
       \/ /\ entry = "_name_matches_domain"
          /\ arg \in [tokens : TokenLists, domain : ScoredDomains]
    /\ ret = NotReturned
    /\ StagesIdle

SpecMatcher == InitMatcher /\ [][NextMatcher]_vars

-----------------------------------------------------------------------------
(* Tag parsers (parsers.py): cuisine and opening hours                     *)
(*                                                                         *)
(* Both are pure functions of the tag values.  An opening_hours value is   *)
(* built from rules joined by ";"; a dict is a function on its keys, and   *)
(* None is NoValue.                                                        *)

\* Number of rules in an opening_hours value
MaxRules == 3

NoValue == [none |-> TRUE]

\* The inverse of Lower
Upper(c) ==
    IF \E i \in 1..26 : LowerCase[i] = c
    THEN UpperCase[CHOOSE i \in 1..26 : LowerCase[i] = c]
    ELSE c

IsLetter(c) == \E i \in 1..26 : c \in {LowerCase[i], UpperCase[i]}

\* str.title(): a letter after a non-letter is upper-cased, any other
\* letter lower-cased
Title(s) ==
    [i \in 1..Len(s) |->
        IF i = 1 \/ ~IsLetter(s[i - 1]) THEN Upper(s[i]) ELSE Lower(s[i])]

\* s.replace(old, new) for one-character old and new
ReplaceChar(s, old, new) == [i \in 1..Len(s) |-> IF s[i] = old THEN new ELSE s[i]]

\* s.split(c), piece being the text read since the last c
RECURSIVE SplitOn(_, _, _)
SplitOn(s, c, piece) ==
    IF s = <<>> THEN <<piece>>
    ELSE IF Head(s) = c THEN <<piece>> \o SplitOn(Tail(s), c, <<>>)
    ELSE SplitOn(Tail(s), c, Append(piece, Head(s)))

\* s.split(None, 1): the first word and the rest, or the first word alone
SplitFirstWord(s) ==
    LET t == LStrip(s)
        blank == FirstOf(t, {" "})
    IN  IF t = <<>> THEN <<>>
        ELSE IF blank = 0 THEN <<t>>
        ELSE IF LStrip(SubSeq(t, blank + 1, Len(t))) = <<>> THEN <<SubSeq(t, 1, blank - 1)>>
        ELSE <<SubSeq(t, 1, blank - 1), LStrip(SubSeq(t, blank + 1, Len(t)))>>

RECURSIVE Join(_, _)
Join(texts, sep) ==
    IF texts = <<>> THEN <<>>
    ELSE IF Len(texts) = 1 THEN texts[1]
    ELSE texts[1] \o sep \o Join(Tail(texts), sep)

\* parsers.py:10-18: the keys of _DAY_MAP, in order
DayAbbrs ==
    <<<<"M", "o">>, <<"T", "u">>, <<"W", "e">>, <<"T", "h">>, <<"F", "r">>, <<"S", "a">>, <<"S", "u">>>>

\* parsers.py:20
_DAY_ORDER ==
    <<"monday", "tuesday", "wednesday", "thursday", "friday", "saturday", "sunday">>

Closed == <<"c", "l", "o", "s", "e", "d">>

FullDay == <<"0", "0", ":", "0", "0", "-", "2", "4", ":", "0", "0">>

TwentyFourSeven == <<"2", "4", "/", "7">>

Off == <<" ", "o", "f", "f">>

\* Rules of opening_hours values: the text, whether it is well-formed, and
\* for a well-formed rule the days it names and the value it gives them
HoursRules ==
    { [text |-> <<"2", "4", "/", "7">>,
        wellformed |-> TRUE, days |-> {"monday", "tuesday", "wednesday", "thursday", "friday", "saturday", "sunday"},
        value |-> <<"0", "0", ":", "0", "0", "-", "2", "4", ":", "0", "0">>],
      [text |-> <<"M", "o", "-", "F", "r", " ", "1", "0", ":", "0", "0", "-", "2", "2", ":", "0", "0">>,
        wellformed |-> TRUE, days |-> {"monday", "tuesday", "wednesday", "thursday", "friday"},
        value |-> <<"1", "0", ":", "0", "0", "-", "2", "2", ":", "0", "0">>],
      [text |-> <<"F", "r", "-", "M", "o", " ", "1", "1", ":", "0", "0", "-", "2", "3", ":", "0", "0">>,
        wellformed |-> TRUE, days |-> {"friday", "saturday", "sunday", "monday"},
        value |-> <<"1", "1", ":", "0", "0", "-", "2", "3", ":", "0", "0">>],
      [text |-> <<" ", "S", "a", " ", " ", "0", "9", ":", "0", "0", "-", "1", "2", ":", "0", "0", " ">>,
        wellformed |-> TRUE, days |-> {"saturday"},
        value |-> <<"0", "9", ":", "0", "0", "-", "1", "2", ":", "0", "0">>],
      [text |-> <<"S", "u", " ", "o", "f", "f">>,
        wellformed |-> TRUE, days |-> {"sunday"},
        value |-> <<"c", "l", "o", "s", "e", "d">>],
      [text |-> <<"F", "r", "-", "M", "o", " ", "o", "f", "f">>,
        wellformed |-> TRUE, days |-> {"friday", "saturday", "sunday", "monday"},
        value |-> <<"c", "l", "o", "s", "e", "d">>],
      [text |-> <<"M", "o", ",", "W", "e", "-", "T", "h", " ", "0", "8", ":", "0", "0", "-", "1", "0", ":", "0", "0">>,
        wellformed |-> TRUE, days |-> {"monday", "wednesday", "thursday"},
        value |-> <<"0", "8", ":", "0", "0", "-", "1", "0", ":", "0", "0">>],
      [text |-> <<"S", "a", ",", "S", "u", " ", "o", "f", "f">>,
        wellformed |-> FALSE, days |-> {},
        value |-> <<>>],
      [text |-> <<"M", "o", " ", "o", "p", "e", "n">>,
        wellformed |-> FALSE, days |-> {},
        value |-> <<>>],
      [text |-> <<"g", "a", "r", "b", "a", "g", "e">>,
        wellformed |-> FALSE, days |-> {},
        value |-> <<>>],
      [text |-> <<"X", "x", " ", "1", "0", ":", "0", "0", "-", "2", "2", ":", "0", "0">>,
        wellformed |-> FALSE, days |-> {},
        value |-> <<>>] }

\* cuisine tag values with the labels they stand for
CuisineTexts ==
    { [text |-> <<"i", "t", "a", "l", "i", "a", "n", ";", "p", "i", "z", "z", "a">>,
        labels |-> <<<<"I", "t", "a", "l", "i", "a", "n">>, <<"P", "i", "z", "z", "a">>>>],
      [text |-> <<" ", "f", "a", "s", "t", "_", "f", "o", "o", "d", " ", ";", " ", "i", "t", "a", "l", "i", "a", "n", ";", ";", "p", "i", "z", "z", "a">>,
        labels |-> <<<<"F", "a", "s", "t", " ", "F", "o", "o", "d">>, <<"I", "t", "a", "l", "i", "a", "n">>, <<"P", "i", "z", "z", "a">>>>],
      [text |-> <<"B", "B", "Q", ";", "b", "u", "b", "b", "l", "e", "_", "t", "e", "a">>,
        labels |-> <<<<"B", "b", "q">>, <<"B", "u", "b", "b", "l", "e", " ", "T", "e", "a">>>>],
      [text |-> <<";">>,
        labels |-> <<>>],
      [text |-> <<" ">>,
        labels |-> <<>>] }

AmenityTexts ==
    { <<"c", "a", "f", "e">>, <<"f", "a", "s", "t", "_", "f", "o", "o", "d">>, <<"b", "a", "r">>, <<"p", "u", "b">>, <<"b", "i", "e", "r", "g", "a", "r", "t", "e", "n">>, <<"r", "e", "s", "t", "a", "u", "r", "a", "n", "t">> }

\* parsers.py:63-69
fallback ==
    { [amenity |-> <<"c", "a", "f", "e">>,
        labels |-> <<<<"C", "a", "f", "e">>>>],
      [amenity |-> <<"f", "a", "s", "t", "_", "f", "o", "o", "d">>,
        labels |-> <<<<"F", "a", "s", "t", " ", "F", "o", "o", "d">>>>],
      [amenity |-> <<"b", "a", "r">>,
        labels |-> <<<<"B", "a", "r">>>>],
      [amenity |-> <<"p", "u", "b">>,
        labels |-> <<<<"B", "a", "r">>>>],
      [amenity |-> <<"b", "i", "e", "r", "g", "a", "r", "t", "e", "n">>,
        labels |-> <<<<"A", "u", "s", "t", "r", "i", "a", "n">>, <<"B", "e", "e", "r", " ", "G", "a", "r", "d", "e", "n">>>>] }

Restaurant == <<"R", "e", "s", "t", "a", "u", "r", "a", "n", "t">>

DayIndex(abbr) == CHOOSE i \in 1..7 : DayAbbrs[i] = abbr

IsDayAbbr(text) == \E i \in 1..7 : DayAbbrs[i] = text

\* A range that stops at the end of the week instead of wrapping
_expand_day_range_NoWrap(token) ==
    IF Len(token) = 2 /\ IsDayAbbr(token) THEN <<_DAY_ORDER[DayIndex(token)]>>
    ELSE IF /\ Len(token) = 5
            /\ token[3] = "-"
            /\ IsDayAbbr(SubSeq(token, 1, 2))
            /\ IsDayAbbr(SubSeq(token, 4, 5))
         THEN LET start_idx == DayIndex(SubSeq(token, 1, 2))
                  end_idx == DayIndex(SubSeq(token, 4, 5))
              IN  SubSeq(_DAY_ORDER, start_idx, end_idx)
    ELSE <<>>

\* parsers.py:99-114; _DAY_RANGE_RE (:23-25) matches a day or day-day
_expand_day_range(token) ==
    IF Len(token) = 2 /\ IsDayAbbr(token) THEN <<_DAY_ORDER[DayIndex(token)]>>
    ELSE IF /\ Len(token) = 5
            /\ token[3] = "-"
            /\ IsDayAbbr(SubSeq(token, 1, 2))
            /\ IsDayAbbr(SubSeq(token, 4, 5))
         THEN LET start_idx == DayIndex(SubSeq(token, 1, 2))
                  end_idx == DayIndex(SubSeq(token, 4, 5))
              IN  IF end_idx >= start_idx THEN SubSeq(_DAY_ORDER, start_idx, end_idx)
                  ELSE SubSeq(_DAY_ORDER, start_idx, 7) \o SubSeq(_DAY_ORDER, 1, end_idx)
    ELSE <<>>

\* result[day] = value for every day of the list
SetDays(result, day_list, value) ==
    LET named == { day_list[i] : i \in 1..Len(day_list) }
    IN  [d \in DOMAIN result \cup named |-> IF d \in named THEN value ELSE result[d]]

\* parsers.py:148-151: the days of the comma-separated tokens, from token i on
RECURSIVE TokenDays(_, _)
TokenDays(day_tokens, i) ==
    IF i > Len(day_tokens) THEN <<>>
    ELSE _expand_day_range(Strip(day_tokens[i])) \o TokenDays(day_tokens, i + 1)

\* parsers.py:129-151: what one rule does to the result
ApplyRule(result, rule) ==
    IF rule = TwentyFourSeven THEN SetDays(result, _DAY_ORDER, FullDay)
    ELSE IF Contains(rule, Off)
         THEN SetDays(result, _expand_day_range(Strip(Remove(rule, Off))), Closed)
    ELSE LET parts == SplitFirstWord(rule)
         IN  IF Len(parts) # 2 THEN result
             ELSE SetDays(result, TokenDays(SplitOn(parts[1], ",", <<>>), 1),
                          Strip(parts[2]))

RECURSIVE ApplyRules(_, _, _)
ApplyRules(result, rules, i) ==
    IF i > Len(rules) THEN result
    ELSE ApplyRules(ApplyRule(result, rules[i]), rules, i + 1)

\* parsers.py:117-157; no statement of the try block can raise
parse_opening_hours(raw) ==
    LET pieces == SplitOn(raw, ";", <<>>)
        rules == SelectSeq([i \in 1..Len(pieces) |-> Strip(pieces[i])],
                           LAMBDA r : r # <<>>)
        result == ApplyRules(<<>>, rules, 1)
    IN  IF raw = <<>> THEN NoValue
        ELSE IF DOMAIN result = {} THEN NoValue
        ELSE result

\* parsers.py:53-70
parse_cuisine(tags) ==
    LET raw == EntryGet(tags, "cuisine", <<>>)
        pieces == SplitOn(raw, ";", <<>>)
        kept == SelectSeq(pieces, LAMBDA c : Strip(c) # <<>>)
        amenity == EntryGet(tags, "amenity", <<>>)
    IN  IF raw # <<>>
        THEN [i \in 1..Len(kept) |-> Title(ReplaceChar(Strip(kept[i]), "_", " "))]
        ELSE IF \E f \in fallback : f.amenity = amenity
             THEN (CHOOSE f \in fallback : f.amenity = amenity).labels
        ELSE <<Restaurant>>

\* The opening_hours tag made of the rules
RawHours(rules) == Join([i \in 1..Len(rules) |-> rules[i].text], <<";">>)

\* parse_opening_hours is called on the tag value and returns
ParseOpeningHours ==
    /\ pc = "call"
    /\ entry = "parse_opening_hours"
    /\ ret' = Returned(parse_opening_hours(RawHours(arg)))
    /\ pc' = "returned"
    /\ UNCHANGED <<entry, arg, stageVars>>

\* parse_cuisine is called on the tags and returns
ParseCuisine ==
    /\ pc = "call"
    /\ entry = "parse_cuisine"
    /\ ret' = Returned(parse_cuisine(arg))
    /\ pc' = "returned"
    /\ UNCHANGED <<entry, arg, stageVars>>

NextParsers ==
    \/ ParseOpeningHours
    \/ ParseCuisine

RuleLists == UNION { [1..n -> HoursRules] : n \in 0..MaxRules }

\* Tag maps with and without a cuisine and an amenity tag
CuisineTags ==
    { [k \in {} |-> <<>>] }
        \cup { [cuisine |-> c] : c \in { t.text : t \in CuisineTexts } \cup {<<>>} }
        \cup { [amenity |-> a] : a \in AmenityTexts }
        \cup { [cuisine |-> c, amenity |-> a] :
                 c \in { t.text : t \in CuisineTexts } \cup {<<>>}, a \in AmenityTexts }

InitParsers ==
    /\ pc = "call"
    /\ \/ entry = "parse_opening_hours" /\ arg \in RuleLists
       \/ entry = "parse_cuisine" /\ arg \in CuisineTags
    /\ ret = NotReturned
    /\ StagesIdle

SpecParsers == InitParsers /\ [][NextParsers]_vars

-----------------------------------------------------------------------------
(* Menu files (menu_vision.py)                                             *)
(*                                                                         *)
(* extract_menu_from_file_url downloads a menu file, decides whether it is *)
(* a PDF or an image and extracts the items: from a PDF through its text   *)
(* and the text model, or through images of its pages and the vision       *)
(* model; from an image through the vision model.  used records the calls  *)
(* of the two models in order, idx is the page loop's position.             *)

\* menu_vision.py:26-27
_PDF_EXTENSIONS == { <<".", "p", "d", "f">> }

_IMAGE_EXTENSIONS == { <<".", "j", "p", "g">>, <<".", "j", "p", "e", "g">>, <<".", "p", "n", "g">>, <<".", "w", "e", "b", "p">>, <<".", "g", "i", "f">> }

\* menu_vision.py:56, :61, :300: url.lower().split("?")[0]
UrlPath(url) == SplitOn(StrLower(url), "?", <<>>)[1]

\* menu_vision.py:55-57
_is_pdf_url(url) == \E ext \in _PDF_EXTENSIONS : EndsWith(UrlPath(url), ext)

\* menu_vision.py:60-62
_is_image_url(url) == \E ext \in _IMAGE_EXTENSIONS : EndsWith(UrlPath(url), ext)

\* menu_vision.py:298-307
_mime_from_url(url) ==
    IF EndsWith(UrlPath(url), <<".", "p", "n", "g">>) THEN <<"i", "m", "a", "g", "e", "/", "p", "n", "g">>
    ELSE IF EndsWith(UrlPath(url), <<".", "w", "e", "b", "p">>) THEN <<"i", "m", "a", "g", "e", "/", "w", "e", "b", "p">>
    ELSE IF EndsWith(UrlPath(url), <<".", "g", "i", "f">>) THEN <<"i", "m", "a", "g", "e", "/", "g", "i", "f">>
    ELSE <<"i", "m", "a", "g", "e", "/", "j", "p", "e", "g">>

\* menu_vision.py:351: the size cap of 20 MB
MaxFileBytes == 20 * 1024 * 1024

\* menu_vision.py:153: pdf.pages[:max_pages], called with max_pages=5
_MAX_PAGES == 5

\* The page count of the longest document tried
MaxDocPages == 6

PdfMagic == <<"%", "P", "D", "F", "-">>

\* menu_vision.py:291: resp.headers.get("content-type", "").lower()
ContentType(a) == StrLower(a.header)

\* menu_vision.py:339: key = api_key or os.environ.get("OPENAI_API_KEY", "")
FileKey(a) == IF Truthy(a.api_key) THEN a.api_key ELSE a.env_key

\* menu_vision.py:356-360
is_pdf(a) ==
    \/ Contains(ContentType(a), <<"a", "p", "p", "l", "i", "c", "a", "t", "i", "o", "n", "/", "p", "d", "f">>)
    \/ Take(a.head, 5) = PdfMagic
    \/ _is_pdf_url(a.url)

\* menu_vision.py:361-364
is_image(a) ==
    \/ StartsWith(ContentType(a), <<"i", "m", "a", "g", "e", "/">>)
    \/ _is_image_url(a.url)

\* menu_vision.py:70-96: the text of the document, None (<<>>) when the
\* extraction fails or gives fewer than 20 characters
_extract_text_from_pdf(doc) == IF doc.chars < 20 THEN <<>> ELSE Rep("t", doc.chars)

\* Mutation: every page of the document is rendered.
RenderedPages_All(doc) == doc.pages

\* menu_vision.py:138-160: the number of page images made
RenderedPages(doc) == IF doc.pages > _MAX_PAGES THEN _MAX_PAGES ELSE doc.pages

\* menu_vision.py:99-130: the text model's answer is parsed; a failed call
\* or parse gives []
_parse_menu_text_with_llm(response) ==
    IF response.json = "error" \/ ParseRaises(response) THEN <<>>
    ELSE _parse_json_response(response)

\* A call of the text model or of the vision model, and its answer
TextCall(response) == [call |-> "text", page |-> 0, mime |-> <<>>, response |-> response]

VisionPageCall(page, mime, response) ==
    [call |-> "vision", page |-> page, mime |-> mime, response |-> response]

ModelNames == << <<"a", "b">>, <<"A", "b">>, <<"c", "d">>, <<"e", "f">> >>

\* An answer that lists the first n of ModelNames
AnswerOf(n) == [json |-> "list", entries |-> [k \in 1..n |-> [name |-> ModelNames[k]]]]

\* Answers of the text model: the call fails, or it lists 2, 3 or 4 dishes
TextResponses == { [json |-> "error"], AnswerOf(2), AnswerOf(3), AnswerOf(4) }

\* Answers of the vision model for one image
ImageResponses ==
    { [json |-> "error"], AnswerOf(2),
      [json |-> "list", entries |-> <<[name |-> ModelNames[3]]>>] }

\* The documents tried: the characters of text in them and their pages
PdfDocs == [ chars : {0, 19, 20}, pages : {0, 1, 2, MaxDocPages} ]

FileUrls == { <<"h", "t", "t", "p", ":", "/", "/", "x", "/", "m", ".", "p", "d", "f">>, <<"h", "t", "t", "p", ":", "/", "/", "x", "/", "m", ".", "P", "N", "G", "?", "v", "=", "1">>, <<"h", "t", "t", "p", ":", "/", "/", "x", "/", "m">>, <<"h", "t", "t", "p", ":", "/", "/", "x", "/", "m", "?", "f", "=", "a", ".", "p", "d", "f">> }

Headers == { <<"a", "p", "p", "l", "i", "c", "a", "t", "i", "o", "n", "/", "p", "d", "f">>, <<"I", "m", "a", "g", "e", "/", "P", "N", "G">>, <<"t", "e", "x", "t", "/", "h", "t", "m", "l">>, <<>> }

Heads == { PdfMagic, <<"G", "I", "F", "8", "9">> }

FileInput(url, header, head, size, doc, api_key, env, download) ==
    [ url |-> url, header |-> header, head |-> head, size |-> size, doc |-> doc,
      api_key |-> api_key, env_key |-> env, download |-> download ]

\* The downloads tried: every URL, header and first bytes with a one-page
\* document; every document as a PDF served as one; a file over the cap, a
\* failed download and a call without any key
FileInputs ==
    { FileInput(u, h, b, 1024, [chars |-> 20, pages |-> 1], k, <<"s", "k">>, "ok") :
        u \in FileUrls, h \in Headers, b \in Heads, k \in {<<>>, <<"s", "k">>} }
      \cup { FileInput(<<"h", "t", "t", "p", ":", "/", "/", "x", "/", "m", ".", "p", "d", "f">>, <<"a", "p", "p", "l", "i", "c", "a", "t", "i", "o", "n", "/", "p", "d", "f">>, PdfMagic, 1024, d, <<"s", "k">>, <<>>, "ok") :
               d \in PdfDocs }
      \cup { FileInput(<<"h", "t", "t", "p", ":", "/", "/", "x", "/", "m", ".", "p", "d", "f">>, <<"a", "p", "p", "l", "i", "c", "a", "t", "i", "o", "n", "/", "p", "d", "f">>, PdfMagic, s, [chars |-> 20, pages |-> 1],
                       k, <<>>, w) :
               s \in {MaxFileBytes, MaxFileBytes + 1}, k \in {<<>>, <<"s", "k">>},
               w \in {"ok", "failed"} }

\* Variables extract_menu_from_file_url leaves alone
fileFrame ==
    <<entry, arg, exc, attempt, resp, olog, raw_elements, dedup_in, restaurants,
      pipeVars, opts, browserVars, cur, timeVars, stage_result, discVars>>

\* menu_vision.py:339-375: the key, the download, the size cap and the
\* decision between PDF and image
FileStart ==
    /\ pc = "file_start"
    /\ IF \/ ~Truthy(FileKey(arg))
          \/ arg.download = "failed"
          \/ arg.size > MaxFileBytes
          \/ (~is_pdf(arg) /\ ~is_image(arg))
       THEN /\ ret' = Returned(<<>>)
            /\ pc' = "returned"
       ELSE /\ ret' = ret
            /\ pc' = IF is_pdf(arg) THEN "pdf_text" ELSE "image"
    /\ UNCHANGED <<used, idx, fileFrame>>

\* menu_vision.py:370-372: the image goes to the vision model
ImageExtract ==
    /\ pc = "image"
    /\ \E response \in ImageResponses :
         /\ used' = Append(used,
                VisionPageCall(0, IF StartsWith(ContentType(arg), <<"i", "m", "a", "g", "e", "/">>)
                                  THEN ContentType(arg) ELSE _mime_from_url(arg.url),
                               response))
         /\ ret' = Returned(_extract_menu_from_image(response))
    /\ pc' = "returned"
    /\ UNCHANGED <<idx, fileFrame>>

\* menu_vision.py:385-386: no text could be taken from the PDF
PdfNoText ==
    /\ pc = "pdf_text"
    /\ ~Truthy(_extract_text_from_pdf(arg.doc))
    /\ pc' = "pdf_images"
    /\ UNCHANGED <<ret, used, idx, fileFrame>>

\* menu_vision.py:386-390: the text is parsed by the text model; three or
\* more items are returned
PdfTextParse ==
    /\ pc = "pdf_text"
    /\ Truthy(_extract_text_from_pdf(arg.doc))
    /\ \E response \in TextResponses :
         /\ used' = Append(used, TextCall(response))
         /\ IF Len(_parse_menu_text_with_llm(response)) >= 3
            THEN /\ ret' = Returned(_parse_menu_text_with_llm(response))
                 /\ pc' = "returned"
            ELSE /\ ret' = ret
                 /\ pc' = "pdf_images"
    /\ UNCHANGED <<idx, fileFrame>>

\* menu_vision.py:393-399: no page image could be made; the text, if there
\* is any, is parsed once more and that result returned
PdfNoImages ==
    /\ pc = "pdf_images"
    /\ RenderedPages(arg.doc) = 0
    /\ IF Truthy(_extract_text_from_pdf(arg.doc))
       THEN \E response \in TextResponses :
              /\ used' = Append(used, TextCall(response))
              /\ ret' = Returned(_parse_menu_text_with_llm(response))
       ELSE /\ used' = used
            /\ ret' = Returned(<<>>)
    /\ pc' = "returned"
    /\ UNCHANGED <<idx, fileFrame>>

\* menu_vision.py:393 and :401-402: the page images are handed to
\* _extract_menu_from_images
PdfRender ==
    /\ pc = "pdf_images"
    /\ RenderedPages(arg.doc) > 0
    /\ idx' = 1
    /\ pc' = "vision_page"
    /\ UNCHANGED <<ret, used, fileFrame>>

\* The answers of the vision calls made so far, in order
RECURSIVE VisionAnswers(_)
VisionAnswers(calls) ==
    IF calls = <<>> THEN <<>>
    ELSE IF Head(calls).call = "vision"
         THEN <<Head(calls).response>> \o VisionAnswers(Tail(calls))
    ELSE VisionAnswers(Tail(calls))

\* menu_vision.py:212-220: one page image goes to the vision model; after
\* the last one the merged list is returned
VisionPage ==
    /\ pc = "vision_page"
    /\ \E response \in ImageResponses :
         /\ used' = Append(used, VisionPageCall(idx, <<"i", "m", "a", "g", "e", "/", "p", "n", "g">>, response))
         /\ IF idx + 1 > RenderedPages(arg.doc)
            THEN /\ ret' = Returned(_extract_menu_from_images(
                                      VisionAnswers(Append(used,
                                          VisionPageCall(idx, <<"i", "m", "a", "g", "e", "/", "p", "n", "g">>, response)))))
                 /\ pc' = "returned"
            ELSE /\ ret' = ret
                 /\ pc' = "vision_page"
    /\ idx' = idx + 1
    /\ UNCHANGED fileFrame

NextFile ==
    \/ FileStart
    \/ ImageExtract
    \/ PdfNoText
    \/ PdfTextParse
    \/ PdfNoImages
    \/ PdfRender
    \/ VisionPage

\* A call of extract_menu_from_file_url
InitFile ==
    /\ pc = "file_start"
    /\ entry = "extract_menu_from_file_url"
    /\ arg \in FileInputs
    /\ ret = NotReturned
    /\ exc = "none"
    /\ attempt = 0
    /\ resp = NoResp
    /\ olog = <<>>
    /\ raw_elements = <<>>
    /\ dedup_in = <<>>
    /\ restaurants = <<>>
    /\ PipeIdle
    /\ EnrichIdle

SpecFile == InitFile /\ [][NextFile]_vars

-----------------------------------------------------------------------------
(* Language detection (app/services/query_parser.py)                       *)
(*                                                                         *)
(* detect_language is a pure function of the message text.                 *)

\* query_parser.py:128-132: the words of the three patterns; each pattern
\* is \b(w1|w2|...)\b, so it matches a whole word only
german_indicators ==
    << {
         <<"i", "c", "h">>, <<"d", "u">>, <<"d", "e", "r">>, <<"d", "i", "e">>,
         <<"d", "a", "s">>, <<"u", "n", "d">>, <<"o", "d", "e", "r">>,
         <<"f", "ü", "r">>, <<"m", "i", "t">>, <<"v", "o", "n">>,
         <<"a", "u", "f">>, <<"ü", "b", "e", "r">> },
       {
         <<"r", "e", "s", "t", "a", "u", "r", "a", "n", "t">>,
         <<"c", "a", "f", "é">>, <<"w", "o">>, <<"g", "i", "b", "t">>,
         <<"s", "u", "c", "h", "e">>, <<"m", "ö", "c", "h", "t", "e">>,
         <<"g", "e", "r", "n", "e">> },
       {
         <<"g", "ü", "n", "s", "t", "i", "g">>, <<"t", "e", "u", "e", "r">>,
         <<"b", "i", "l", "l", "i", "g">> } >>

\* A character \w matches, so one \b does not separate from its neighbour
IsWordChar(c) == IsLetter(c) \/ IsDigit(c) \/ c \in {"_", "ä", "ö", "ü", "ß", "é"}

\* The maximal runs of word characters in a text, word being the run read
\* so far
RECURSIVE WordRuns(_, _)
WordRuns(text, word) ==
    IF text = <<>> THEN (IF word = <<>> THEN <<>> ELSE <<word>>)
    ELSE IF IsWordChar(Head(text)) THEN WordRuns(Tail(text), Append(word, Head(text)))
    ELSE (IF word = <<>> THEN <<>> ELSE <<word>>) \o WordRuns(Tail(text), <<>>)

\* query_parser.py:136: len(re.findall(pattern, text_lower, re.IGNORECASE))
CountMatches(pattern, text_lower) ==
    Cardinality({ k \in 1..Len(WordRuns(text_lower, <<>>)) :
                    WordRuns(text_lower, <<>>)[k] \in pattern })

\* query_parser.py:141: german_matches >= 2
GermanThreshold == 2

\* query_parser.py:117-141
detect_language(text) ==
    LET text_lower == StrLower(text)
        german_matches ==
            CountMatches(german_indicators[1], text_lower)
              + CountMatches(german_indicators[2], text_lower)
              + CountMatches(german_indicators[3], text_lower)
    IN  IF german_matches >= GermanThreshold THEN "de" ELSE "en"

\* The longest message made of pool words
MaxWords == 3

MessageWords ==
    << <<"I", "c", "h">>, <<"s", "u", "c", "h", "e">>, <<"R", "e", "s", "t", "a", "u", "r", "a", "n", "t">>, <<"g", "ü", "n", "s", "t", "i", "g">>, <<"g", "ü", "n", "s", "t", "i", "g", "e">>,
       <<"p", "i", "z", "z", "a">>, <<"w", "o", "?">>, <<"g", "e", "r", "n", "e", "-", "m", "i", "t">> >>

\* tests/test_query_parser.py:6-15: the messages the tests label
GermanTestMessages == { <<"I", "c", "h", " ", "s", "u", "c", "h", "e", " ", "e", "i", "n", " ", "R", "e", "s", "t", "a", "u", "r", "a", "n", "t">>, <<"g", "ü", "n", "s", "t", "i", "g", "e", " ", "i", "t", "a", "l", "i", "e", "n", "i", "s", "c", "h", "e", " ", "K", "ü", "c", "h", "e">> }

EnglishTestMessages == { <<"F", "i", "n", "d", " ", "m", "e", " ", "a", " ", "v", "e", "g", "a", "n", " ", "r", "e", "s", "t", "a", "u", "r", "a", "n", "t">>, <<"c", "h", "e", "a", "p", " ", "I", "t", "a", "l", "i", "a", "n", " ", "f", "o", "o", "d">> }

\* The pool words in any order, separated by blanks
Messages ==
    UNION { { Join([k \in 1..m |-> MessageWords[f[k]]], <<" ">>) :
                f \in [1..m -> 1..Len(MessageWords)] } : m \in 0..MaxWords }

DetectLanguage ==
    /\ pc = "call"
    /\ entry = "detect_language"
    /\ ret' = Returned(detect_language(arg))
    /\ pc' = "returned"
    /\ UNCHANGED <<entry, arg, stageVars>>

NextLanguage == DetectLanguage

InitLanguage ==
    /\ pc = "call"
    /\ entry = "detect_language"
    /\ arg \in Messages \cup GermanTestMessages \cup EnglishTestMessages
    /\ ret = NotReturned
    /\ StagesIdle

SpecLanguage == InitLanguage /\ [][NextLanguage]_vars

-----------------------------------------------------------------------------
(* Retrieval and the chat endpoint (app/services/retrieval.py,             *)
(* app/api/chat.py)                                                        *)
(*                                                                         *)
(* arg holds the rows of the restaurants table in the order the database   *)
(* returns them, the filters parsed from the message and the max_results   *)
(* setting; restaurants is the handler's list, resp its HTTP response.     *)

\* The largest table tried
MaxRows == 3

\* query_parser.py:95
_DEFAULT_RADIUS_M == 800

\* No rating, no coordinates, no location in the query (None)
NoRating == 0 - 1

NoPoint == <<>>

\* A row: ratings in tenths, coordinates in metres on the plane
\* _haversine_m projects to (retrieval.py:25-29)
Row(id, price_range, cuisine, features, rating, review_count, point, menu) ==
    [ id |-> id, price_range |-> price_range, cuisine |-> cuisine,
      features |-> features, rating |-> rating, review_count |-> review_count,
      point |-> point, menu |-> menu ]

RowPool ==
    << Row(1, "€", <<<<"I", "t", "a", "l", "i", "a", "n">>>>, {"vegan_options"}, 45, 10, <<100, 0>>, {<<"P", "i", "z", "z", "a", " ", "M", "a", "r", "g", "h", "e", "r", "i", "t", "a">>}),
       Row(2, "€€", <<<<"i", "t", "a", "l", "i", "a", "n">>, <<"P", "i", "z", "z", "a">>>>, {}, NoRating, 0, NoPoint, {}),
       Row(3, "€€", <<<<"A", "u", "s", "t", "r", "i", "a", "n">>>>, {"vegan_options", "outdoor_seating"}, 40, 5,
           <<900, 0>>, {<<"S", "c", "h", "n", "i", "t", "z", "e", "l">>}),
       Row(4, "€", <<>>, {}, 45, 20, <<0, 800>>, {}) >>

\* Tables: rows with distinct ids, in any order
Tables ==
    UNION { { [k \in 1..n |-> RowPool[f[k]]] :
                f \in { g \in [1..n -> 1..Len(RowPool)] :
                          \A i, j \in 1..n : i # j => g[i] # g[j] } } : n \in 0..MaxRows }

\* query_parser.py:98-114: the filters of a query
FilterSets ==
    [ price_ranges : { {}, {"€"} },
      cuisine_types : { <<>>, <<<<"i", "t", "a", "l", "i", "a", "n">>>>, <<<<"t", "h", "a", "i">>, <<"I", "T", "A", "L", "I", "A", "N">>>> },
      features : { {}, {"vegan_options"}, {"vegan_options", "outdoor_seating"} },
      dish_keywords : { <<>>, <<<<"p", "i", "z", "z">>>> },
      location : { NoPoint, <<0, 0>> },
      location_radius_m : { _DEFAULT_RADIUS_M } ]

\* retrieval.py:52-53
MatchesPrice(r, filters) ==
    filters.price_ranges = {} \/ r.price_range \in filters.price_ranges

\* retrieval.py:56-58: a menu item's name holds a keyword, in any case
MatchesDish(r, filters) ==
    \/ filters.dish_keywords = <<>>
    \/ \E item \in r.menu, k \in 1..Len(filters.dish_keywords) :
          Contains(StrLower(item), StrLower(filters.dish_keywords[k]))

\* Mutation: the cuisine is compared as written.
MatchesCuisine_CaseSensitive(r, filters) ==
    \/ filters.cuisine_types = <<>>
    \/ \E k \in 1..Len(filters.cuisine_types), c \in 1..Len(r.cuisine) :
          filters.cuisine_types[k] = r.cuisine[c]

\* retrieval.py:65-73
MatchesCuisine(r, filters) ==
    \/ filters.cuisine_types = <<>>
    \/ \E k \in 1..Len(filters.cuisine_types), c \in 1..Len(r.cuisine) :
          StrLower(filters.cuisine_types[k]) = StrLower(r.cuisine[c])

\* retrieval.py:75-80
MatchesFeatures(r, filters) == filters.features \subseteq r.features

\* retrieval.py:25-29: the square of the distance in metres
DistSquared(a, b) == (a[1] - b[1]) * (a[1] - b[1]) + (a[2] - b[2]) * (a[2] - b[2])

\* retrieval.py:88-97
WithinRadius(r, filters) ==
    /\ r.point # NoPoint
    /\ DistSquared(filters.location, r.point)
         <= filters.location_radius_m * filters.location_radius_m

\* list.sort: the pairs in ascending order of key, equal keys in their
\* given order
RECURSIVE InsertPair(_, _)
InsertPair(pair, sorted) ==
    IF sorted = <<>> THEN <<pair>>
    ELSE IF Head(sorted).key <= pair.key THEN <<Head(sorted)>> \o InsertPair(pair, Tail(sorted))
    ELSE <<pair>> \o sorted

RECURSIVE SortPairs(_, _)
SortPairs(pairs, i) ==
    IF i = 0 THEN <<>> ELSE InsertPair(pairs[i], SortPairs(pairs, i - 1))

RowsOf(pairs) == [k \in 1..Len(pairs) |-> pairs[k].row]

\* retrieval.py:102: (r.rating or 0.0, r.review_count), as one number
RankKey(r) == (IF r.rating = NoRating THEN 0 ELSE r.rating) * 1000 + r.review_count

\* retrieval.py:102: sort(..., reverse=True) keeps equal keys in their order
ByRating(rows) ==
    RowsOf(SortPairs([k \in 1..Len(rows) |-> [key |-> 0 - RankKey(rows[k]), row |-> rows[k]]],
                     Len(rows)))

\* retrieval.py:98-99
ByDistance(rows, filters) ==
    RowsOf(SortPairs([k \in 1..Len(rows) |->
                        [key |-> DistSquared(filters.location, rows[k].point),
                         row |-> rows[k]]], Len(rows)))

\* retrieval.py:49-107: the rows that pass the filters, ranked and cut
search_restaurants(table, filters, max_results) ==
    LET matched ==
            SelectSeq(table, LAMBDA r : /\ MatchesPrice(r, filters)
                                        /\ MatchesDish(r, filters)
                                        /\ MatchesCuisine(r, filters)
                                        /\ MatchesFeatures(r, filters))
        ranked ==
            IF filters.location # NoPoint
            THEN ByDistance(SelectSeq(matched, LAMBDA r : WithinRadius(r, filters)), filters)
            ELSE ByRating(matched)
    IN  Take(ranked, max_results)

\* retrieval.py:130-138: ORDER BY rating DESC NULLS LAST, review_count DESC
\* LIMIT limit
get_all_restaurants(table, limit) ==
    Take(RowsOf(SortPairs([k \in 1..Len(table) |->
                             [key |-> IF table[k].rating = NoRating THEN 1
                                      ELSE 0 - RankKey(table[k]),
                              row |-> table[k]]], Len(table))), limit)

\* chat.py:47: the limit of the fallback
FallbackLimit == 3

NotFoundDetail == "No restaurants found. Please seed the database first."

ErrorDetail == "An error occurred while processing your request. Please try again."

HttpResponse(status, detail, list, language) ==
    [status |-> status, detail |-> detail, restaurants |-> list, language |-> language]

\* Variables retrieval and the chat handler leave alone
appFrame ==
    <<entry, arg, attempt, olog, raw_elements, dedup_in, pipeVars, enrichVars>>

\* retrieval.py:32-112: a direct call
SearchRestaurants ==
    /\ pc = "call"
    /\ entry = "search_restaurants"
    /\ IF search_restaurants(arg.table, arg.filters, arg.max_results) = <<>>
       THEN /\ exc' = "NoRestaurantsFoundError"
            /\ pc' = "raised"
            /\ ret' = ret
       ELSE /\ exc' = exc
            /\ pc' = "returned"
            /\ ret' = Returned(search_restaurants(arg.table, arg.filters, arg.max_results))
    /\ UNCHANGED <<restaurants, resp, appFrame>>

\* chat.py:35-44: language, filters and the filtered search
ChatSearch ==
    /\ pc = "chat_start"
    /\ IF search_restaurants(arg.table, arg.filters, arg.max_results) = <<>>
       THEN /\ pc' = "chat_fallback"
            /\ restaurants' = restaurants
       ELSE /\ pc' = "chat_respond"
            /\ restaurants' = search_restaurants(arg.table, arg.filters, arg.max_results)
    /\ UNCHANGED <<exc, ret, resp, appFrame>>

\* chat.py:45-53: the search raised NoRestaurantsFoundError; the top-rated
\* restaurants are taken, and HTTPException(404) is raised if there is none
ChatFallback ==
    /\ pc = "chat_fallback"
    /\ restaurants' = get_all_restaurants(arg.table, FallbackLimit)
    /\ IF get_all_restaurants(arg.table, FallbackLimit) = <<>>
       THEN /\ exc' = "HTTPException"
            /\ pc' = "chat_raised"
       ELSE /\ exc' = exc
            /\ pc' = "chat_respond"
    /\ UNCHANGED <<ret, resp, appFrame>>

\* chat.py:55-69 with llm.py:143-163: generate_response returns the model's
\* answer or, on any error, a canned sentence; the response is built
ChatRespond ==
    /\ pc = "chat_respond"
    /\ resp' = HttpResponse(200, "", restaurants,
                            IF arg.language # "" THEN arg.language
                            ELSE detect_language(arg.message))
    /\ pc' = "responded"
    /\ UNCHANGED <<exc, ret, restaurants, appFrame>>

\* chat.py:71-80: the handlers of the outer try.  HTTPException is an
\* Exception and no NoRestaurantsFoundError, so the second clause takes it.
ChatExcept ==
    /\ pc = "chat_raised"
    /\ resp' = IF exc = "NoRestaurantsFoundError"
               THEN HttpResponse(404, "No restaurants found matching your criteria", <<>>, "")
               ELSE HttpResponse(500, ErrorDetail, <<>>, "")
    /\ pc' = "responded"
    /\ UNCHANGED <<exc, ret, restaurants, appFrame>>

NextApp ==
    \/ SearchRestaurants
    \/ ChatSearch
    \/ ChatFallback
    \/ ChatRespond
    \/ ChatExcept

\* A call of search_restaurants, or a POST to /api/chat
InitApp ==
    /\ \/ /\ entry = "search_restaurants"
          /\ pc = "call"
          /\ arg \in [table : Tables, filters : FilterSets, max_results : {1, 5}]
       \/ /\ entry = "chat"
          /\ pc = "chat_start"
          /\ arg \in [table : Tables, filters : FilterSets, max_results : {5},
                      message : {<<"I", "c", "h", " ", "s", "u", "c", "h", "e", " ", "e", "i", "n", " ", "R", "e", "s", "t", "a", "u", "r", "a", "n", "t">>, <<"c", "h", "e", "a", "p", " ", "I", "t", "a", "l", "i", "a", "n", " ", "f", "o", "o", "d">>},
                      language : {"", "en"}]
    /\ ret = NotReturned
    /\ StagesIdle

SpecApp == InitApp /\ [][NextApp]_vars

-----------------------------------------------------------------------------
(* Properties of the Overpass fetcher *)

\* The requests scrape() has issued, in order (sleeps left out)
RECURSIVE PostsOf(_)
PostsOf(log) ==
    IF log = <<>> THEN <<>>
    ELSE IF Head(log).ev = "sleep" THEN PostsOf(Tail(log))
    ELSE <<Head(log)>> \o PostsOf(Tail(log))

ScrapeEnded == pc \in {"scrape_raised", "scrape_returned"}

\* Every request so far was answered with 429 or 504
AllAnswered429or504 ==
    \A i \in 1..Len(olog) :
        olog[i].ev # "sleep" => (olog[i].ev = "post" /\ olog[i].n \in {429, 504})

\* Every request so far failed with a retryable outcome (429, 504, network)
AllRetryableFailures ==
    \A i \in 1..Len(olog) :
        olog[i].ev = "post" => olog[i].n \in {429, 504}

\* C1: when every attempt of scrape() is answered with HTTP 504 or 429, it
\* issues exactly 3 requests and then raises to its caller; it never issues
\* a 4th request and never returns a result.
C1_ExhaustedRetriesRaise ==
    AllAnswered429or504 =>
        /\ Len(PostsOf(olog)) <= 3
        /\ pc # "scrape_returned"
        /\ pc # "scrape_after"
        /\ ScrapeEnded => (Len(PostsOf(olog)) = 3 /\ exc = "HTTPStatusError")
        /\ Len(PostsOf(olog)) = 3 => pc = "scrape_raised"

\* Witness of C1: three attempts, all answered 504 or 429, and the raise.
C1_Witness ==
    /\ pc = "scrape_raised"
    /\ PostsOf(olog) = <<Post(504), Post(429), Post(504)>>

\* The element carries a non-empty name tag
CarriesName(e) ==
    /\ "tags" \in DOMAIN e
    /\ "name" \in DOMAIN e.tags
    /\ e.tags.name # <<>>

\* C2: after k < 3 retryable failures (429, 504, network error) a 200 makes
\* scrape() return, and the result is exactly the elements of that response
\* carrying a non-empty name tag, in response order.
C2_RetryThenSuccess ==
    /\ (AllRetryableFailures /\ Len(PostsOf(olog)) < 3) => pc # "scrape_raised"
    /\ (olog # <<>> /\ olog[Len(olog)] = Post(200)) =>
          /\ pc \in {"scrape_after", "scrape_returned"}
          /\ exc = "none"
    /\ pc = "scrape_returned" =>
          /\ olog[Len(olog)] = Post(200)
          /\ Len(PostsOf(olog)) <= 3
          /\ \A k \in 1..Len(raw_elements) :
                /\ raw_elements[k].osm_id \in 1..Len(resp.elements)
                /\ CarriesName(resp.elements[raw_elements[k].osm_id])
                /\ raw_elements[k].tags = resp.elements[raw_elements[k].osm_id].tags
          /\ \A k \in 1..(Len(raw_elements) - 1) :
                raw_elements[k].osm_id < raw_elements[k + 1].osm_id
          /\ \A i \in 1..Len(resp.elements) :
                CarriesName(resp.elements[i]) =>
                    \E k \in 1..Len(raw_elements) : raw_elements[k].osm_id = i

\* Witness of C2: a 429 and a network error, then a 200 whose body holds a
\* named element after an unnamed one; scrape() has returned.
C2_Witness ==
    /\ pc = "scrape_returned"
    /\ PostsOf(olog) = <<Post(429), PostFailed, Post(200)>>
    /\ Len(resp.elements) = 2
    /\ ~CarriesName(resp.elements[1])
    /\ Len(raw_elements) = 1

RECURSIVE BackoffsOf(_)
BackoffsOf(log) ==
    IF log = <<>> THEN <<>>
    ELSE IF Head(log).ev = "sleep" THEN <<Head(log).n>> \o BackoffsOf(Tail(log))
    ELSE BackoffsOf(Tail(log))

IsRequest(e) == e.ev \in {"post", "post_error"}

\* C23: scrape() sleeps 1 s exactly once, before the first request and
\* before no later one; between two consecutive attempts it sleeps exactly
\* once; the backoff waits of a run are, in order, a prefix of 5 s, 15 s,
\* 30 s; no wait is taken after the final attempt.
C23_PauseOnceBackoffInOrder ==
    pc # "scrape_start" =>
        /\ olog[1] = Sleep(1)
        /\ \A i \in 2..Len(olog) : olog[i] # Sleep(1)
        /\ \A i \in 1..(Len(olog) - 1) :
               IsRequest(olog[i]) =>
                   /\ olog[i + 1].ev = "sleep"
                   /\ i + 2 <= Len(olog) => IsRequest(olog[i + 2])
        /\ \A i \in 2..Len(olog) : olog[i].ev = "sleep" => IsRequest(olog[i - 1])
        /\ LET waits == BackoffsOf(Tail(olog))
           IN  /\ Len(waits) <= 3
               /\ waits = SubSeq(<<5, 15, 30>>, 1, Len(waits))
        /\ (ScrapeEnded \/ pc = "scrape_after") => IsRequest(olog[Len(olog)])
        /\ Len(PostsOf(olog)) = 3 => IsRequest(olog[Len(olog)])

\* Witness of C23: two failed attempts with their waits, then the result.
C23_Witness ==
    /\ pc = "scrape_returned"
    /\ olog = <<Sleep(1), PostFailed, Sleep(5), Post(429), Sleep(15), Post(200)>>

-----------------------------------------------------------------------------
(* Properties of the deduplicator *)

\* The trimmed, lower-cased name, written out for the names of the model
TrimmedLowerName(r) ==
    LET n == r.name
        first == CHOOSE i \in 1..(Len(n) + 1) :
                    /\ \A j \in 1..(i - 1) : n[j] = " "
                    /\ (i <= Len(n) => n[i] # " ")
        last == CHOOSE i \in 0..Len(n) :
                    /\ \A j \in (i + 1)..Len(n) : n[j] = " "
                    /\ (i >= 1 => n[i] # " ")
    IN  [k \in 1..(IF last >= first THEN last - first + 1 ELSE 0) |->
            IF n[first + k - 1] = "A" THEN "a"
            ELSE IF n[first + k - 1] = "B" THEN "b"
            ELSE n[first + k - 1]]

\* Position in list of the first entity with the key of r
FirstWithKey(list, r) ==
    CHOOSE i \in 1..Len(list) :
        /\ TrimmedLowerName(list[i]) = TrimmedLowerName(r)
        /\ \A j \in 1..(i - 1) : TrimmedLowerName(list[j]) # TrimmedLowerName(r)

\* C4: _deduplicate returns a subsequence of its input in first-seen order
\* that keeps the first entity of every trimmed, lower-cased name and holds
\* no two entities with the same key; applied to its own output it changes
\* nothing.
C4_DedupFirstSeen ==
    /\ pc = "dedup_returned" =>
          /\ \A k \in 1..Len(restaurants) :
                /\ \E i \in 1..Len(dedup_in) :
                      TrimmedLowerName(dedup_in[i]) = TrimmedLowerName(restaurants[k])
                /\ restaurants[k] = dedup_in[FirstWithKey(dedup_in, restaurants[k])]
          /\ \A k \in 1..(Len(restaurants) - 1) :
                FirstWithKey(dedup_in, restaurants[k])
                    < FirstWithKey(dedup_in, restaurants[k + 1])
          /\ \A i \in 1..Len(dedup_in) :
                \E k \in 1..Len(restaurants) :
                    TrimmedLowerName(restaurants[k]) = TrimmedLowerName(dedup_in[i])
          /\ \A k, l \in 1..Len(restaurants) :
                k # l => TrimmedLowerName(restaurants[k]) # TrimmedLowerName(restaurants[l])
    /\ pc = "dedup_twice" => restaurants = dedup_in

\* Witness of C4: three entities in, the second a duplicate of the first by
\* case and blanks only and with another website, two entities out.
C4_Witness ==
    /\ pc = "dedup_returned"
    /\ Len(dedup_in) = 3
    /\ dedup_in[1].name = <<" ", "a">>
    /\ dedup_in[2].name = <<"A", " ">>
    /\ dedup_in[2].website # dedup_in[1].website
    /\ dedup_in[3].name = <<"b">>
    /\ Len(restaurants) = 2

-----------------------------------------------------------------------------
(* Properties of the pipeline orchestrator *)

HasStage(name) == \E i \in 1..Len(stages) : stages[i] = name

IsPrefix(a, b) == Len(a) <= Len(b) /\ SubSeq(b, 1, Len(a)) = a

\* The stages a command line asks for, in the documented order
ExpectedStages ==
    <<"fetch", "normalize", "dedup">>
        \o (IF args.discover_websites THEN <<"discover">> ELSE <<>>)
        \o (IF args.enrich THEN <<"enrich">> ELSE <<>>)

RunEnded == pc \in {"done", "usage_error", "crashed"}

\* The run was ended by an exception of the fetch stage or by cancellation
RunAborted ==
    exc \in {"HTTPStatusError", "RequestError", "RuntimeError", "CancelledError"}

\* C5: a run executes fetch, normalize and dedup in that order, then the
\* website matcher if requested, then enrichment if requested; no stage that
\* was not requested runs, and once the run has ended (not aborted by a
\* failed fetch or a cancellation) every requested stage has run exactly once.
C5_StagesAsRequested ==
    /\ IsPrefix(stages, ExpectedStages)
    /\ (RunEnded /\ SubFlagsValid(args) /\ ~RunAborted) => stages = ExpectedStages

\* What holds of both snapshots whenever they exist: the raw one is written
\* after the fetch and before normalization, the clean one after every
\* requested stage, each with its count
SnapshotOrder ==
    /\ raw_file # <<>> =>
          /\ HasStage("fetch")
          /\ raw_file.restaurants = raw_elements
          /\ raw_file.count = Len(raw_file.restaurants)
    /\ (HasStage("normalize") \/ restaurants # <<>>) => raw_file # <<>>
    /\ clean_file # <<>> =>
          /\ pc = "done"
          /\ stages = ExpectedStages
          /\ browser # "open"
          /\ clean_file.restaurants = restaurants
          /\ clean_file.count = Len(clean_file.restaurants)
    /\ (pc = "crashed" /\ exc # "CancelledError") =>
          (raw_file = <<>> /\ clean_file = <<>>)

\* C6 (as stated): in every run whose fetch succeeds (the run reaches its
\* end without an exception) both snapshots are written, the raw one before
\* normalization and the clean one after all requested stages, each with
\* count equal to its number of records; a failed fetch writes none.
C6_SnapshotsWhenFetchSucceeds ==
    /\ SnapshotOrder
    /\ pc = "done" => (raw_file # <<>> /\ clean_file # <<>>)

\* C6 (amended): the same for the runs whose fetch returns at least one
\* named element; a fetch that fails or returns no named element writes no
\* snapshot at all.
C6_SnapshotsWhenFetchReturnsData ==
    /\ SnapshotOrder
    /\ (pc = "done" /\ Truthy(raw_elements)) => (raw_file # <<>> /\ clean_file # <<>>)
    /\ (RunEnded /\ ~Truthy(raw_elements)) => (raw_file = <<>> /\ clean_file = <<>>)

\* A finished run with enrichment: two raw records, one clean record
C6_Witness ==
    /\ pc = "done"
    /\ args.enrich
    /\ raw_file # <<>> /\ raw_file.count = 2
    /\ clean_file # <<>> /\ clean_file.count = 1

-----------------------------------------------------------------------------
(* Properties of enrichment and discovery *)

\* The delay the politeness rules demand before the request gap.to
RequiredDelay(g) ==
    IF g.from.kind = "search" /\ g.to.kind = "search" THEN _DELAY_BETWEEN_SEARCHES
    ELSE IF g.from.ent # g.to.ent THEN _DELAY_BETWEEN_REQUESTS
    ELSE 1

\* C7: every two consecutive outbound requests are separated by the mandated
\* delay: 3 s between searches, 2 s between the last request of one entity
\* and the first of the next, 1 s between sub-fetches of one entity.
C7_PolitenessDelays ==
    (gap.from.kind # "none" /\ gap.to.kind # "none") => gap.secs >= RequiredDelay(gap)

\* This step records the failure of a per-entity stage
StageFails == stage_result' # stage_result /\ ~stage_result'.ok

\* C8: a failed search, fetch, rendering or extraction leaves the entity and
\* the data gathered for it as they were, the run goes on, and nothing but
\* a cancellation ever leaves enrich_restaurants or discover_missing_websites.
C8_FailureIsolated ==
    [][ /\ StageFails =>
              /\ restaurants' = restaurants
              /\ cur'.summary = cur.summary
              /\ cur'.menu_items = cur.menu_items
              /\ cur'.menu_url = cur.menu_url
              /\ exc' = exc
              /\ pc' \in {"enrich_loop", "vision", "merge", "merge_items",
                          "discover_search", "discover_returned"}
              /\ (stage_result'.stage = "home" => idx' = idx + 1)
        /\ pc' \in {"enrich_raised", "discover_raised"} => exc' = "CancelledError"
      ]_vars

\* The first entity's homepage could not be fetched; the loop is at the
\* second entity, the first one as it was
C8_Witness ==
    /\ pc = "enrich_loop"
    /\ idx = 2
    /\ Len(restaurants) = 2
    /\ stage_result = Stage(1, "home", FALSE)
    /\ restaurants[1].data_sources = <<"openstreetmap">>
    /\ IsHttp(restaurants[2].website)

EnrichExited == pc \in {"enrich_returned", "enrich_raised"}

\* C9: the browser is launched at most once, only with JS rendering on and
\* only before the entity loop; once enrich_restaurants has returned or
\* raised, the browser and the driver context are closed; at most one
\* rendering page is open at a time.
C9_BrowserScoped ==
    /\ [](/\ launches <= 1
          /\ (launches = 1 => opts.use_playwright)
          /\ (browser = "open" => launches = 1)
          /\ open_pages <= 1
          /\ EnrichExited =>
                /\ browser # "open"
                /\ pw_context \notin {"created", "entered"}
                /\ open_pages = 0)
    /\ [][launches' # launches => (pc = "enrich_start" /\ idx = 0)]_vars

\* The run was cancelled in the middle of a rendering; the browser launched
\* for it is closed and the driver context exited
C9_Witness ==
    /\ pc = "enrich_raised"
    /\ exc = "CancelledError"
    /\ launches = 1
    /\ browser = "closed"
    /\ pw_context = "exited"
    /\ last_req.ent = 2

Invoked(i, strategy) ==
    \E k \in 1..Len(used[i].invoked) : used[i].invoked[k] = strategy

Attempts(stage) == stage_result' # stage_result /\ stage_result'.stage = stage

HasSource(e, label) == \E k \in 1..Len(e.data_sources) : e.data_sources[k] = label

\* The list is not empty, starts with "openstreetmap" and names no label twice
SourcesWellFormed(e) ==
    /\ e.data_sources # <<>>
    /\ e.data_sources[1] = "openstreetmap"
    /\ \A k, l \in 1..Len(e.data_sources) : k # l => e.data_sources[k] # e.data_sources[l]

\* The step gives entity i the label "web_search": it is the search for an
\* entity without a website, and it sets the website
SearchSetsWebsite(i) ==
    /\ pc = "discover_search"
    /\ missing[didx] = i
    /\ ~Truthy(restaurants[i].website)
    /\ Truthy(restaurants'[i].website)

\* The step gives entity i the label "website": it merges the result of a
\* scrape of the entity's website whose homepage fetch returned a page
FetchReturnedResult(i) ==
    /\ pc = "merge_items"
    /\ idx = i
    /\ used # <<>>
    /\ used[1].source = "home"
    /\ Truthy(restaurants[i].website)

\* C29: through any sequence of discovery and enrichment stages the
\* data-source list of every entity is non-empty, has "openstreetmap" first
\* and holds no label twice; "web_search" enters it only in a step in which
\* the matcher sets the entity's website, and "website" only in a step that
\* merges the result a fetch of the entity's website returned.
C29_SourcesProvenance ==
    /\ [](\A i \in 1..Len(restaurants) :
            /\ SourcesWellFormed(restaurants[i])
            /\ HasSource(restaurants[i], "web_search") => Truthy(restaurants[i].website))
    /\ [][\A i \in 1..Len(restaurants) :
            /\ (HasSource(restaurants'[i], "web_search")
                  /\ ~HasSource(restaurants[i], "web_search")) => SearchSetsWebsite(i)
            /\ (HasSource(restaurants'[i], "website")
                  /\ ~HasSource(restaurants[i], "website")) => FetchReturnedResult(i)]_vars

\* Discovery found the website, the enrichment that followed fetched it
C29_Witness ==
    /\ pc = "enrich_returned"
    /\ stages = <<"enrich">>
    /\ restaurants[1].data_sources = <<"openstreetmap", "web_search", "website">>

-----------------------------------------------------------------------------
(* Properties of menu item extraction *)

\* The list an extraction strategy has returned
ItemsReturned ==
    /\ ret.returned
    /\ entry \in {"_extract_from_jsonld", "_extract_from_html_heuristic",
                  "_parse_json_response", "_extract_menu_from_images"}

\* C12: whichever strategy produced it, an item list holds no two items
\* whose names are equal ignoring case.
C12_NoDuplicateItemNames ==
    ItemsReturned =>
        \A i, j \in 1..Len(ret.value) :
            i < j => StrLower(ret.value[i].name) # StrLower(ret.value[j].name)

\* The fixed category vocabulary
MenuCategories ==
    { CatStarter, CatMain, CatDessert, CatDrink, CatPizza, CatPasta, CatSushi,
      CatSoup, CatSalad, CatBurger, CatOther }

\* C13: whichever strategy produced it, every item has a name of 2 to 200
\* characters after trimming, a price text of at most 50 characters and a
\* category of the fixed vocabulary.
C13_ItemFieldsWithinLimits ==
    ItemsReturned =>
        \A i \in 1..Len(ret.value) :
            /\ Len(Strip(ret.value[i].name)) >= 2
            /\ Len(Strip(ret.value[i].name)) <= 200
            /\ Len(ret.value[i].price) <= 50
            /\ ret.value[i].category \in MenuCategories

\* The entries of the response that are objects with a name of two or more
\* characters once trimmed, in input order
RECURSIVE NamedEntries(_)
NamedEntries(entries) ==
    IF entries = <<>> THEN <<>>
    ELSE IF /\ "nodict" \notin DOMAIN Head(entries)
            /\ Len(Strip(Str(EntryGet(Head(entries), "name", <<>>)))) >= 2
         THEN <<Head(entries)>> \o NamedEntries(Tail(entries))
    ELSE NamedEntries(Tail(entries))

SuppliesNoCategory(e) == "category" \notin DOMAIN e \/ e.category = JsonNull

\* C27: _parse_json_response never raises; it returns [] when the content
\* is no JSON and holds no parseable [...] text, or is JSON but no list;
\* otherwise it returns, in input order, one item per object entry whose
\* trimmed name has 2 or more characters, with name, price and category of
\* at most 200, 50 and 50 characters, the category being "Other" whenever
\* the entry supplies none.
C27_ParseNeverRaisesAndCleans ==
    (entry = "_parse_json_response" /\ pc # "call") =>
        /\ pc = "returned"
        /\ exc = "none"
        /\ arg.json \in {"invalid", "object"} => ret.value = <<>>
        /\ arg.json \in {"list", "embedded"} =>
               LET kept == NamedEntries(arg.entries)
               IN  /\ Len(ret.value) = Len(kept)
                   /\ \A i \in 1..Len(kept) :
                          /\ ret.value[i].name = Take(Strip(Str(kept[i].name)), 200)
                          /\ Len(ret.value[i].price) <= 50
                          /\ Len(ret.value[i].category) <= 50
                          /\ SuppliesNoCategory(kept[i]) => ret.value[i].category = CatOther

\* A text without the separator punctuation and white space at its ends
RECURSIVE TrimSeparators(_)
TrimSeparators(s) ==
    IF s # <<>> /\ (IsSeparator(Head(s)) \/ IsSpace(Head(s))) THEN TrimSeparators(Tail(s))
    ELSE IF s # <<>> /\ (IsSeparator(s[Len(s)]) \/ IsSpace(s[Len(s)]))
         THEN TrimSeparators(SubSeq(s, 1, Len(s) - 1))
    ELSE s

\* The walk as documented: a heading sets the category and emits nothing, a
\* block of 3 to 200 characters with a price emits the item named by its
\* text without prices and without separators at the ends, if that name has
\* 3 to 120 characters
RECURSIVE DocumentedWalk(_, _, _)
DocumentedWalk(elements, i, category) ==
    IF i > Len(elements) THEN <<>>
    ELSE LET e == elements[i]
         IN  IF e.tag = "h2" THEN DocumentedWalk(elements, i + 1, _infer_category(e))
             ELSE LET name == TrimSeparators(RemovePrices(e.text, 1))
                  IN  IF /\ Len(e.text) >= 3
                         /\ Len(e.text) <= 200
                         /\ _extract_price(e.text) # <<>>
                         /\ Len(name) >= 3
                         /\ Len(name) <= 120
                      THEN <<MenuItem(name, _extract_price(e.text), category)>>
                              \o DocumentedWalk(elements, i + 1, category)
                      ELSE DocumentedWalk(elements, i + 1, category)

\* C28: in the heuristic walk a heading sets the current category and emits
\* nothing; a non-heading element whose text has 3 to 200 characters and
\* holds a price emits one item with the first price match as price, the
\* text without price substrings and without leading and trailing separator
\* punctuation as name (kept only if it has 3 to 120 characters) and the
\* category of the nearest preceding heading ("Other" if there is none).
C28_HeuristicWalkAsDocumented ==
    (entry = "_extract_from_html_heuristic" /\ ret.returned) =>
        ret.value = UniqueByName(DocumentedWalk(arg, 1, CatOther), 1, {})

\* C28, the example: "Wiener Schnitzel ... €14,90" gives the name
\* "Wiener Schnitzel" and the price "€14,90"
WienerSchnitzelExample ==
    /\ DishName(<<"W", "i", "e", "n", "e", "r", " ", "S", "c", "h", "n", "i", "t", "z", "e", "l", " ", ".", ".", ".", " ", "€", "1", "4", ",", "9", "0">>) = <<"W", "i", "e", "n", "e", "r", " ", "S", "c", "h", "n", "i", "t", "z", "e", "l">>
    /\ _extract_price(<<"W", "i", "e", "n", "e", "r", " ", "S", "c", "h", "n", "i", "t", "z", "e", "l", " ", ".", ".", ".", " ", "€", "1", "4", ",", "9", "0">>) = <<"€", "1", "4", ",", "9", "0">>

-----------------------------------------------------------------------------
(* Properties of the website matcher *)

PickReturned == entry = "_pick_best_url" /\ ret.returned

\* The domain of a URL: its host in lower case, a leading "www." removed
UrlDomain(url) ==
    LET netloc == StrLower(Netloc(url))
    IN  IF StartsWith(netloc, Www) THEN SubSeq(netloc, 5, Len(netloc)) ELSE netloc

\* The domain is blocklisted or a sub-domain of a blocklisted domain
Blocklisted(domain) ==
    \E b \in _SKIP_DOMAINS \cup _GENERIC_BLOCKLIST :
        domain = b \/ EndsWith(domain, <<".">> \o b)

\* The top-level domain: the last label of the domain, with its dot
TopLevelDomain(domain) ==
    IF LastDot(domain) = 0 THEN <<>>
    ELSE SubSeq(domain, LastDot(domain), Len(domain))

HasNegativeWord(text) == \E word \in _NEGATIVE_DOMAIN_WORDS : Contains(text, word)

\* C14: the matcher never returns a URL whose domain (leading www. removed)
\* is blocklisted or a sub-domain of a blocklisted domain, whose top-level
\* domain is suspect, or whose domain contains a negative-signal word; when
\* every search result is blocklisted it returns none, whatever the name.
C14_FilteredDomainsNeverReturned ==
    PickReturned =>
        /\ ret.value # NoneUrl =>
               /\ ~Blocklisted(UrlDomain(ret.value))
               /\ TopLevelDomain(UrlDomain(ret.value)) \notin _SUSPECT_TLDS
               /\ ~HasNegativeWord(UrlDomain(ret.value))
        /\ (\A i \in 1..Len(arg.results) :
                /\ "href" \in DOMAIN arg.results[i]
                /\ Blocklisted(UrlDomain(arg.results[i].href)))
               => ret.value = NoneUrl

\* The single result of the call has a domain that is a distinctive token t
\* of the name followed by a preferred TLD, and a title naming the city
ExactDomainFor(t) ==
    /\ Len(arg.results) = 1
    /\ "href" \in DOMAIN arg.results[1]
    /\ \E tld \in _PREFERRED_TLDS : UrlDomain(arg.results[1].href) = t \o tld
    /\ Contains(StrLower(EntryGet(arg.results[1], "title", <<>>)), Graz)

DistinctiveTokens ==
    LET tokens == NameTokens(arg.name)
    IN  { tokens[i] : i \in 1..Len(tokens) }

\* The token is one the filters of the matcher leave alone
Unfiltered(t) ==
    /\ ~HasNegativeWord(t)
    /\ \A tld \in _PREFERRED_TLDS : ~Blocklisted(t \o tld)
    /\ ~EndsWith(t, <<"w", "w", "w">>)

\* C15 as stated: for every name with a distinctive token t, a single result
\* whose domain is exactly t plus a preferred TLD and whose title contains
\* the city name is returned.
C15_ExactDomainReturned ==
    PickReturned =>
        \A t \in DistinctiveTokens :
            ExactDomainFor(t) => ret.value = arg.results[1].href

\* C15: for every name with a distinctive token t that contains no
\* negative-signal word, does not end in "www" and does not give a
\* blocklisted domain, a single result whose domain is exactly t plus a
\* preferred TLD and whose title contains the city name is returned.
C15_ExactDomainReturnedUnlessFiltered ==
    PickReturned =>
        \A t \in DistinctiveTokens :
            (ExactDomainFor(t) /\ Unfiltered(t)) => ret.value = arg.results[1].href

C15_Witness ==
    /\ PickReturned
    /\ \E t \in DistinctiveTokens : ExactDomainFor(t) /\ Unfiltered(t)
    /\ ret.value # NoneUrl
    /\ TitleNameHits(arg.results[1], NameTokens(arg.name)) = 0

\* The candidates that survive the filters and the gate, in result order
Surviving == Candidates(arg.results, NameTokens(arg.name))

\* C16: the matcher returns none when no surviving candidate scores at least
\* 3; otherwise it returns the URL of a surviving candidate of maximum score,
\* the first of them in the search results.
C16_BestScoreFirstOfEqual ==
    PickReturned =>
        LET c == Surviving
        IN  IF \A i \in 1..Len(c) : c[i].score < 3
            THEN ret.value = NoneUrl
            ELSE \E i \in 1..Len(c) :
                    /\ ret.value = c[i].url
                    /\ \A j \in 1..Len(c) : c[j].score <= c[i].score
                    /\ \A j \in 1..(i - 1) : c[j].score < c[i].score

C16_Witness ==
    /\ PickReturned
    /\ LET c == Surviving
       IN  /\ Len(c) = 2
           /\ c[1].score = c[2].score
           /\ c[1].score >= 3
           /\ c[1].url # c[2].url
           /\ ret.value = c[1].url

\* A result passes the gate when it is a candidate once the filters let it by
PassesGate(result) == Candidates(<<result>>, NameTokens(arg.name)) # <<>>

HasNameSignal(result) ==
    \/ DomainNameScore(result, NameTokens(arg.name)) > 0
    \/ TitleNameHits(result, NameTokens(arg.name)) > 0

Unskipped == { r \in { arg.results[i] : i \in 1..Len(arg.results) } : ~HardSkip(r) }

-----------------------------------------------------------------------------
(* Properties of the tag parsers *)

HoursReturned == entry = "parse_opening_hours" /\ ret.returned

DayNames == { _DAY_ORDER[i] : i \in 1..7 }

\* The days the rules of the call name, and the last rule naming a day
NamedDays == UNION { arg[i].days : i \in 1..Len(arg) }

LastNaming(d) ==
    CHOOSE i \in 1..Len(arg) :
        d \in arg[i].days /\ \A j \in (i + 1)..Len(arg) : d \notin arg[j].days

AllWellFormed == \A i \in 1..Len(arg) : arg[i].wellformed

\* C18: for a value made of well-formed rules each day named by some rule
\* is a key of the result, once, with the value of the last rule naming it,
\* and no other day is; 24/7 names all seven days with the full-day range,
\* and Fr-Mo names friday, saturday, sunday and monday only.
C18_LastRuleWinsPerDay ==
    (HoursReturned /\ AllWellFormed) =>
        /\ IF NamedDays = {} THEN ret.value = NoValue
           ELSE /\ DOMAIN ret.value = NamedDays
                /\ \A d \in NamedDays : ret.value[d] = arg[LastNaming(d)].value
        /\ (Len(arg) = 1 /\ Strip(arg[1].text) = TwentyFourSeven) =>
               ret.value = [d \in DayNames |-> FullDay]
        /\ (Len(arg) = 1 /\ StartsWith(Strip(arg[1].text), <<"F", "r", "-", "M", "o">>)) =>
               DOMAIN ret.value = {"friday", "saturday", "sunday", "monday"}

C18_Witness ==
    /\ HoursReturned
    /\ AllWellFormed
    /\ Len(arg) = 3
    /\ Strip(arg[1].text) = TwentyFourSeven
    /\ StartsWith(arg[2].text, <<"F", "r", "-", "M", "o">>)
    /\ arg[3].value = Closed
    /\ ret.value["tuesday"] = FullDay
    /\ ret.value["saturday"] = arg[2].value
    /\ ret.value["sunday"] = Closed


\* hh:mm-hh:mm
IsTimeRange(text) ==
    /\ Len(text) = 11
    /\ \A i \in {1, 2, 4, 5, 7, 8, 10, 11} : IsDigit(text[i])
    /\ text[3] = ":" /\ text[6] = "-" /\ text[9] = ":"

\* C19: parse_opening_hours never raises and returns either no value or a
\* non-empty map whose keys are day names and whose values are "closed" or
\* a time range; a value without a parseable rule gives no value.
C19_HoursMapWellTyped ==
    HoursReturned =>
        /\ exc = "none"
        /\ \/ ret.value = NoValue
           \/ /\ DOMAIN ret.value # {}
              /\ DOMAIN ret.value \subseteq DayNames
              /\ \A d \in DOMAIN ret.value :
                     ret.value[d] = Closed \/ IsTimeRange(ret.value[d])
        /\ (\A i \in 1..Len(arg) : ~arg[i].wellformed) => ret.value = NoValue

CuisineReturned == entry = "parse_cuisine" /\ ret.returned

HasCuisineTag == EntryGet(arg, "cuisine", <<>>) # <<>>

\* C20: the cuisine list is never empty; with a cuisine tag it is the
\* trimmed, title-cased tokens of the tag in tag order, without one it is
\* the default of the venue kind, one or two labels.
C20_CuisineNeverEmpty ==
    CuisineReturned =>
        /\ Len(ret.value) >= 1
        /\ HasCuisineTag =>
               \E t \in CuisineTexts : t.text = arg.cuisine /\ ret.value = t.labels
        /\ ~HasCuisineTag =>
               /\ Len(ret.value) \in {1, 2}
               /\ \/ \E f \in fallback :
                         f.amenity = EntryGet(arg, "amenity", <<>>) /\ ret.value = f.labels
                  \/ /\ \A f \in fallback : f.amenity # EntryGet(arg, "amenity", <<>>)
                     /\ ret.value = <<Restaurant>>

-----------------------------------------------------------------------------
(* Properties of the name-versus-domain score *)

\* What a token contributes according to the documented rule: the first
\* that applies of whole base, one word, prefix or suffix, large part
DocumentedTokenScore(token, domain) ==
    LET domain_base == IF Contains(domain, <<".">>) THEN RSplit(domain, 1)[1]
                       ELSE domain
        pieces == ReSplit(domain_base, DomainSeparators, <<>>)
    IN  IF token = domain_base THEN 5
        ELSE IF \E i \in 1..Len(pieces) : pieces[i] = token THEN 4
        ELSE IF StartsWith(domain_base, token) \/ EndsWith(domain_base, token) THEN 3
        ELSE IF \E i \in 1..Len(pieces) :
                    /\ Contains(pieces[i], token)
                    /\ 10 * Len(token) >= 6 * Len(pieces[i])
             THEN 2
        ELSE 0

\* C24: each name token contributes exactly one of +5 (it equals the whole
\* domain base), +4 (it equals one word of the domain), +3 (prefix or
\* suffix of the base), +2 (at least 60% of a domain word containing it)
\* or 0; a token equal to the whole base, as schwalben for schwalben.at,
\* scores +5.
C24_TokenScoreByBestMatch ==
    (entry = "_name_matches_domain" /\ ret.returned) =>
        ret.value = SumSeq([i \in 1..Len(arg.tokens) |->
                               DocumentedTokenScore(arg.tokens[i], arg.domain)])

-----------------------------------------------------------------------------
(* Properties of the menu file extraction *)

\* The call got past the key, the download and the size cap
Downloaded(a) == Truthy(FileKey(a)) /\ a.download = "ok" /\ a.size <= MaxFileBytes

\* The file type as documented: the content type decides when it names a
\* PDF or an image, else the PDF magic bytes, else the URL's extension
DocumentedType(a) ==
    IF Contains(ContentType(a), <<"a", "p", "p", "l", "i", "c", "a", "t", "i", "o", "n", "/", "p", "d", "f">>) THEN "pdf"
    ELSE IF StartsWith(ContentType(a), <<"i", "m", "a", "g", "e", "/">>) THEN "image"
    ELSE IF Take(a.head, 5) = PdfMagic THEN "pdf"
    ELSE IF _is_pdf_url(a.url) THEN "pdf"
    ELSE IF _is_image_url(a.url) THEN "image"
    ELSE "none"

PdfPositions == {"pdf_text", "pdf_images", "vision_page"}

\* C25: the file type is decided by the content-type header when it names
\* a PDF or an image, only otherwise by the PDF magic bytes and only
\* otherwise by the URL's extension, so a file served with an image content
\* type is processed as an image even if its URL ends in .pdf; a file of no
\* recognisable type gives an empty item list.
C25_TypeByHeaderThenMagicThenUrl ==
    (entry = "extract_menu_from_file_url" /\ Downloaded(arg)) =>
        /\ pc \in PdfPositions => DocumentedType(arg) = "pdf"
        /\ pc = "image" => DocumentedType(arg) = "image"
        /\ (pc = "returned" /\ DocumentedType(arg) = "none") =>
               (ret.value = <<>> /\ used = <<>>)

\* extract_menu_from_file_url has returned from _extract_menu_from_pdf
PdfReturned ==
    /\ entry = "extract_menu_from_file_url"
    /\ pc = "returned"
    /\ Downloaded(arg)
    /\ is_pdf(arg)

\* The calls of the vision model made, in order
VisionCalls == SelectSeq(used, LAMBDA c : c.call = "vision")

\* What the text model's first answer parses to (nothing without a call)
FirstParse ==
    IF used # <<>> /\ used[1].call = "text"
    THEN _parse_menu_text_with_llm(used[1].response) ELSE <<>>

\* The text extraction gave 20 or more characters and their parse 3 or more items
TextSucceeds == arg.doc.chars >= 20 /\ Len(FirstParse) >= 3

\* The items of all pages submitted, page after page
RECURSIVE PageItems(_)
PageItems(calls) ==
    IF calls = <<>> THEN <<>>
    ELSE _extract_menu_from_image(Head(calls).response) \o PageItems(Tail(calls))

\* At most 5 pages went to the vision model, each once and in page order,
\* and the result is their items with later items of a name seen dropped
VisionResult ==
    /\ Len(VisionCalls) <= 5
    /\ Len(VisionCalls) <= arg.doc.pages
    /\ \A k \in 1..Len(VisionCalls) : VisionCalls[k].page = k
    /\ ret.value = UniqueByName(PageItems(VisionCalls), 1, {})

\* C26 as stated: for a PDF the text parse is returned, without a call of
\* the vision model, exactly when the text extraction gave 20 or more
\* characters and the parse 3 or more items; otherwise at most 5 pages are
\* rasterised, each submitted to the vision model at most once, and the
\* result is the per-page items merged in page order without the later
\* items of a name already seen.
C26_TextElseVision ==
    PdfReturned =>
        IF TextSucceeds
        THEN VisionCalls = <<>> /\ ret.value = FirstParse
        ELSE VisionResult

\* C26, amended: as stated, except that when the text parse gave fewer than
\* 3 items and no page can be rasterised, the text is parsed a second time
\* and that parse is returned, of whatever size, without a call of the
\* vision model.
C26_TextElseVisionElseTextAgain ==
    PdfReturned =>
        IF TextSucceeds
        THEN VisionCalls = <<>> /\ ret.value = FirstParse /\ Len(used) = 1
        ELSE IF arg.doc.chars >= 20 /\ arg.doc.pages = 0
             THEN /\ VisionCalls = <<>>
                  /\ Len(used) = 2
                  /\ ret.value = _parse_menu_text_with_llm(used[2].response)
        ELSE /\ VisionResult
             /\ Len(VisionCalls) = IF arg.doc.pages > 5 THEN 5 ELSE arg.doc.pages

\* A six-page PDF whose text gave too few items: five pages were submitted
\* and a name seen on an earlier page was dropped
C26_Witness ==
    /\ PdfReturned
    /\ arg.doc.pages = MaxDocPages
    /\ Len(used) = 6
    /\ used[1].call = "text"
    /\ Len(VisionCalls) = 5
    /\ Len(ret.value) = 2
    /\ Len(PageItems(VisionCalls)) > 2

-----------------------------------------------------------------------------
(* Properties of the language detection *)

AllIndicators == german_indicators[1] \cup german_indicators[2] \cup german_indicators[3]

\* The endings of an inflected German word
Endings == { <<"e">>, <<"e", "n">>, <<"e", "r">>, <<"e", "s">>, <<"e", "m">> }

\* The word is an indicator word or an inflected form of one
IsIndicatorForm(word) ==
    \/ word \in AllIndicators
    \/ \E stem \in AllIndicators, ending \in Endings : word = stem \o ending

\* The occurrences of indicator words in a message, inflected forms counted
DocumentedMatches(text) ==
    Cardinality({ k \in 1..Len(WordRuns(StrLower(text), <<>>)) :
                    IsIndicatorForm(WordRuns(StrLower(text), <<>>)[k]) })

\* C22: detect_language returns "de" for every message with two or more
\* occurrences of German indicator words, an inflected form such as
\* "günstige" counting as an occurrence, and "en" for every other message;
\* both messages the tests label German are classified "de".
C22_GermanByTwoIndicators ==
    (entry = "detect_language" /\ ret.returned) =>
        /\ ret.value = IF DocumentedMatches(arg) >= 2 THEN "de" ELSE "en"
        /\ arg \in GermanTestMessages => ret.value = "de"

-----------------------------------------------------------------------------
(* Properties of retrieval and the chat endpoint *)

\* The row satisfies the price, cuisine and feature filters that are active
Qualifies(r, filters) ==
    /\ filters.price_ranges # {} => r.price_range \in filters.price_ranges
    /\ filters.cuisine_types # <<>> =>
          \E k \in 1..Len(filters.cuisine_types), c \in 1..Len(r.cuisine) :
              StrLower(filters.cuisine_types[k]) = StrLower(r.cuisine[c])
    /\ \A feature \in filters.features : feature \in r.features

\* The row satisfies the dish and location filters that are active
QualifiesFurther(r, filters) ==
    /\ filters.dish_keywords # <<>> =>
          \E item \in r.menu, k \in 1..Len(filters.dish_keywords) :
              Contains(StrLower(item), StrLower(filters.dish_keywords[k]))
    /\ filters.location # NoPoint =>
          /\ r.point # NoPoint
          /\ DistSquared(filters.location, r.point) <= _DEFAULT_RADIUS_M * _DEFAULT_RADIUS_M

Qualifying(table, filters) ==
    { k \in 1..Len(table) : Qualifies(table[k], filters) /\ QualifiesFurther(table[k], filters) }

\* C21: search_restaurants returns a non-empty list of at most max_results
\* restaurants of the table, each one satisfying every active filter: its
\* price tier is among the requested ones, one of the requested cuisines
\* equals one of its cuisines ignoring case, and it has all the requested
\* features; when no restaurant qualifies it raises NoRestaurantsFoundError
\* and returns no empty list.
C21_SearchReturnsQualifyingOrRaises ==
    (entry = "search_restaurants" /\ pc # "call") =>
        IF Qualifying(arg.table, arg.filters) = {}
        THEN pc = "raised" /\ exc = "NoRestaurantsFoundError" /\ ~ret.returned
        ELSE /\ pc = "returned"
             /\ Len(ret.value) >= 1
             /\ Len(ret.value) <= arg.max_results
             /\ \A i \in 1..Len(ret.value) :
                   /\ \E k \in 1..Len(arg.table) : arg.table[k] = ret.value[i]
                   /\ Qualifies(ret.value[i], arg.filters)

\* Two restaurants serve the cuisine asked for in capitals; one is returned
C21_Witness ==
    /\ entry = "search_restaurants"
    /\ pc = "returned"
    /\ arg.filters.cuisine_types = <<<<"t", "h", "a", "i">>, <<"I", "T", "A", "L", "I", "A", "N">>>>
    /\ arg.max_results = 1
    /\ Cardinality(Qualifying(arg.table, arg.filters)) = 2
    /\ Len(ret.value) = 1

\* The rows of the table no other row outranks, at most n of them
TopRated(list, table, n) ==
    /\ Len(list) = (IF Len(table) < n THEN Len(table) ELSE n)
    /\ \A i \in 1..Len(list) : \E k \in 1..Len(table) : table[k] = list[i]
    /\ \A i, j \in 1..Len(list) : i # j => list[i] # list[j]
    /\ \A i \in 1..Len(list), k \in 1..Len(table) :
          (\A j \in 1..Len(list) : list[j] # table[k]) =>
              table[k].rating <= list[i].rating

\* C30: when the filtered search finds no restaurant, the chat handler falls
\* back to the at most 3 top-rated restaurants and answers 200; when the
\* table holds no restaurant at all, the request ends with HTTP 404 and the
\* detail "No restaurants found. Please seed the database first.", not
\* with HTTP 500.
C30_FallbackOrNotFound ==
    (entry = "chat" /\ pc = "responded"
       /\ search_restaurants(arg.table, arg.filters, arg.max_results) = <<>>) =>
        IF arg.table = <<>>
        THEN resp.status = 404 /\ resp.detail = NotFoundDetail
        ELSE /\ resp.status = 200
             /\ TopRated(resp.restaurants, arg.table, FallbackLimit)

====
